---- MODULE Spec2Model ----
(***************************************************************************)
(* Model of the agorio shopping agent (src/src/agent/shopping-agent.ts,    *)
(* class ShoppingAgent, second revision in the file, lines 674-1593).      *)
(*                                                                         *)
(* The specifications share the variables:                                 *)
(*   Spec      the plan-act-observe loop of run() / runStream(); the LLM   *)
(*             adapter chooses the responses, tools are executed by        *)
(*             executeTool.                                                *)
(*   SpecTools the tool surface: one action per dispatched tool call on    *)
(*             the shopping state, the merchant choosing the answers.      *)
(*   SpecApi   UcpClient.callApi and the JSON-RPC client McpClient         *)
(*             (src/unnamed/part_015, src/unnamed/part_016).               *)
(*   SpecDiscover  UcpClient.discover and the normalization of the profile *)
(*             it fetched (src/unnamed/part_015).                          *)
(*   SpecAcp   the checkout sessions of the session-checkout merchant      *)
(*             MockAcpMerchant (src/CONTRIBUTING.md).                      *)
(*   SpecCtor  the ShoppingAgent constructor registering plugins, and the  *)
(*             tool catalog its LLM calls pass to the adapter.             *)
(*   SpecRuns  this.steps over successive runs of one agent: recordStep    *)
(*             and buildResult.                                            *)
(*   SpecNet   one outbound request of a tool execution and its timeout,   *)
(*             with the timer's firing weakly fair.                        *)
(*   SpecSpans the tracer spans of a run(), as the specification describes *)
(*             them (the traced run() is known from its tests only).       *)
(*   SpecAdapter  the message history the loop hands to an adapter and the *)
(*             adapter's resolution of tool names to tool call ids.        *)
(*   SpecOrders   the cart and checkout tools, observing the cart each     *)
(*             checkout session was opened for.                            *)
(***************************************************************************)
EXTENDS Integers, Sequences, FiniteSets, TLC

VARIABLES
    \* ---- orchestrator loop (run / runStream locals and fields) ----
    maxIterations,      \* options.maxIterations
    supportsStreaming,  \* typeof adapter.chatStream === 'function'
    mode,               \* "run" | "runStream" | "none"
    pc,                 \* "idle" | "loop" | "tools" | "returned" | "rejected"
    iteration,          \* this.iteration
    messages,           \* the local message history of the current run
    steps,              \* this.steps
    events,             \* events yielded by runStream so far
    turnCalls,          \* toolCalls of the current iteration
    started,            \* number of tool calls of the turn whose execution began
    inflight,           \* indexes of tool executions begun and not yet settled
    agentResult,        \* <<>> or <<AgentResult>> returned / carried by done
    \* ---- shopping state (fields of ShoppingAgent and of its clients) ----
    acpClient,          \* this.acpClient !== null (options.acpOptions given)
    protocol,           \* this.protocol
    acpBaseUrl,         \* this.acpBaseUrl
    discovery,          \* UcpClient.discovery: <<>> or <<[checkout |-> BOOLEAN]>>
    cart,               \* this.cart
    checkoutSessionId,  \* this.checkoutSessionId
    shippingAddress,    \* this.shippingAddress
    orders,             \* this.orders (Map orderId -> MockOrder)
    clock,              \* Date.now()
    merchant,           \* the merchant: how many session ids and order ids it has issued
    \* ---- observation (history of what the code did, no program state) ----
    llmCalls,           \* adapter invocations made by the current run
    lastResponse,       \* <<>> or <<response the adapter gave last>>
    requested,          \* <<iteration, index>> of every tool call the adapter's responses contained
    allToolTurns,       \* every adapter response of the run so far carried a tool call
    execLog,            \* one entry per executeTool call of the run, with its outcome
    guardsHit,          \* the observed error message the latest tool call answered with, if any
    addedSum,           \* per productId: quantities requested since the line was absent
    shippingAccepted,   \* a submit_shipping returned success since the last order
    shippedFor,         \* the session that was current when submit_shipping last returned success
    paySuccesses,       \* number of successful merchant checkout-complete calls
    adds,               \* number of add_to_cart calls dispatched
    \* ---- UcpClient.callApi and McpClient ----
    services,           \* <<>> (no discovery) or <<transports of the first service>>
    apiPc,              \* "idle" | "mcp" | "rest" | "done": position of callApi
    apiTransport,       \* options.transport ?? this.preferredTransport of the call
    apiAttempts,        \* requests the current callApi issued, in order
    apiMcp,             \* "none" | "pending" | "ok" | "failed": its JSON-RPC attempt
    apiRpcId,           \* id of the envelope callApi awaits (0: none)
    apiResult,          \* how the current callApi ended
    apiCalls,           \* callApi invocations so far
    requestId,          \* McpClient.requestId
    envelopes,          \* the envelopes the McpClient posted, in order
    pending,            \* ids of call() envelopes whose response is outstanding
    httpError,          \* <<>> or <<McpError thrown last for a non-2xx response>>
    bodyError,          \* <<>> or <<[sent, thrown]>> of the last error taken from a 2xx body
    \* ---- UcpClient.discover ----
    capInput,           \* the capabilities the merchant declares
    capShape,           \* "array" | "keyed": the shape its profile has
    discDomain,         \* scheme of the domain argument: "none" | "https" | "http"
    discPc,             \* "idle" | "probing" | "resolved" | "rejected"
    probes,             \* the probes discover() issued, in order
    responses,          \* the responses received, responses[i] answering probes[i]
    discError,          \* "none" | "no_profile" | "invalid_profile"
    discCaps,           \* capabilities of this.discovery after discover() resolved
    \* ---- MockAcpMerchant ----
    sessions,           \* this.sessions: session id -> the session's status, address, total
    acpLast,            \* the request handled last and the response to it
    \* ---- ShoppingAgent constructor ----
    pluginInput,        \* options.plugins: the plugins' names, in the order given
    ctorPc,             \* "new" | "constructed" | "threw"
    allTools,           \* this.allTools: the tools' names
    sentTools,          \* the catalog the last LLM call passed to the adapter
    sentCount,          \* LLM calls made with the catalog
    \* ---- successive runs of one agent ----
    runStart,           \* Len(this.steps) when the current run() was entered
    runs,               \* calls of run() so far
    \* ---- outbound requests ----
    netPc,              \* "idle" | "waiting" | "returned": the tool execution's position
    netKind,            \* which fetch the tool execution is waiting for
    netLog,             \* how the requests so far were settled
    \* ---- tracer spans of a run ----
    spans,              \* tracer.spans: the spans started, each with its ended flag
    spanPc,             \* "idle" | "loop" | "llm" | "tools" | "tool" | "returned"
    spanIter,           \* this.iteration of the traced run
    spanCalls,          \* LLM calls and tool calls the traced run has made
    spanLeft,           \* tool calls of the current turn still to execute
    \* ---- message history and adapter ----
    history,            \* messages: the ChatMessage[] of a run, tool calls with their ids
    histPc,             \* "llm" (the next LLM call is due) | "tools" (a turn is executing)
    histLeft,           \* the calls of the last assistant message still to answer
    idCount,            \* tool call ids the LLM has issued
    resolved,           \* the ids the adapter gave the tool messages at its last call
    \* ---- the cart a checkout session was opened for (observation) ----
    checkoutCart        \* the cart contents for which the latest initiate_checkout opened a session
loopVars == <<maxIterations, supportsStreaming, mode, pc, iteration, messages,
              steps, events, turnCalls, started, inflight, agentResult,
              llmCalls, lastResponse, requested, allToolTurns, execLog>>
shopVars == <<acpClient, protocol, acpBaseUrl, discovery, cart, checkoutSessionId,
              shippingAddress, orders, clock, merchant>>
obsVars  == <<guardsHit, addedSum, shippingAccepted, shippedFor, paySuccesses, adds>>
apiVars  == <<services, apiPc, apiTransport, apiAttempts, apiMcp, apiRpcId, apiResult,
              apiCalls, requestId, envelopes, pending, httpError, bodyError>>
discVars == <<capInput, capShape, discDomain, discPc, probes, responses, discError, discCaps>>
acpVars  == <<sessions, acpLast>>
ctorVars == <<pluginInput, ctorPc, allTools, sentTools, sentCount>>
traceVars == <<runStart, runs>>
netVars   == <<netPc, netKind, netLog>>
spanVars  == <<spans, spanPc, spanIter, spanCalls, spanLeft>>
histVars  == <<history, histPc, histLeft, idCount, resolved>>
orderVars == <<checkoutCart>>
otherVars == <<ctorVars, traceVars, netVars, spanVars, histVars, orderVars>>
clientVars == <<apiVars, discVars, acpVars, otherVars>>
vars     == <<loopVars, shopVars, obsVars, clientVars>>

----------------------------------------------------------------------------
\* Bounds of the model

MaxIter     == 2    \* largest maxIterations option explored
MaxCalls    == 2    \* largest number of tool calls in one adapter response
MaxAdds     == 2    \* add_to_cart calls per behaviour of SpecTools
MaxClock    == 1    \* Date.now() takes the values 0..MaxClock
MaxSessions == 2    \* checkout sessions a merchant creates per behaviour

----------------------------------------------------------------------------
\* Values

Null       == "null"                 \* null / undefined (both falsy)
ProductIds == {"prod_webcam", "prod_usb_hub"}
Quantities == {-1, 2}                \* args.quantity when present
\* A merchant never issues the same session id or order id twice
SessionId(n)       == "cs_" \o ToString(n)
MerchantOrderId(n) == "ord_m" \o ToString(n)
Addresses  == {"addr_us"}
Tokens     == {"tok_mock_success", "tok_mock_failure"}

\* Error messages of the tool handlers (shopping-agent.ts)
MsgCartEmpty      == "Cart is empty. Add items before checking out."
MsgNoSession      == "No active checkout session. Call initiate_checkout first."
MsgShippingFirst  == "Shipping address required before payment. Call submit_shipping first."
MsgNoCheckoutCap  == "Merchant does not support checkout capability."
MsgNoDiscovery    == "No discovery result. Call discover() first."
MsgAcpCheckout    == "ACP checkout failed"
MsgUcpCheckout    == "Checkout failed"
MsgAcpShipping    == "ACP shipping update failed"
MsgAcpPayment     == "ACP payment failed"
MsgUcpPayment     == "Payment failed"
MsgAcpDeclined    == "ACP payment failed: ACP API call failed: 402"
MsgUcpDeclined    == "Payment failed: API call failed: 402"
MsgItemNotFound   == "Item not found in cart"
MsgOrderNotFound  == "Order not found"
MsgUnknownTool    == "Unknown tool"
MsgNoMerchant     == "Could not discover merchant. No UCP profile found and ACP is not configured."
MsgApi            == "API call failed"
MsgPlugin         == "Service unavailable"
MsgMaxIterations  == "Agent reached maximum iterations without completing the task."
MsgAdapter        == "LLM request failed"
MsgSlice          == "Cannot read properties of undefined (reading 'slice')"

\* The messages whose text mentions shipping
ShippingMessages == {MsgShippingFirst, MsgAcpShipping}

\* A tool result as the loop sees it.  kind "undefined" is a handler result
\* that JSON.stringify maps to undefined.
Payload(err, succ, sid, oid, ord) ==
    [kind |-> "object", error |-> err, success |-> succ,
     sessionId |-> sid, orderId |-> oid, order |-> ord]
Ok(succ)        == Payload("", succ, Null, Null, <<>>)
ErrorResult(m)  == Payload(m, "", Null, Null, <<>>)
Undefined       == [kind |-> "undefined", error |-> "", success |-> "",
                    sessionId |-> Null, orderId |-> Null, order |-> <<>>]
NoResult        == [kind |-> "none", error |-> "", success |-> "",
                    sessionId |-> Null, orderId |-> Null, order |-> <<>>]

\* The shopping state as one value
ShopState ==
    [acpClient |-> acpClient, protocol |-> protocol,
     acpBaseUrl |-> acpBaseUrl, discovery |-> discovery,
     cart |-> cart, checkoutSessionId |-> checkoutSessionId,
     shippingAddress |-> shippingAddress, orders |-> orders, clock |-> clock,
     merchant |-> merchant]

\* What one call of a tool handler does: the state it leaves, what it returns
\* or throws, and the requests it sent to the merchant.
Returns(s, r, reqs) == [shop |-> s, threw |-> FALSE, result |-> r, message |-> "", requests |-> reqs]
Throws(s, m, reqs)  == [shop |-> s, threw |-> TRUE, result |-> NoResult, message |-> m, requests |-> reqs]

\* A tool call of the adapter
Call(n, p, hq, q, o, t, a) ==
    [name |-> n, productId |-> p, hasQuantity |-> hq, quantity |-> q,
     orderId |-> o, token |-> t, address |-> a]
PlainCall(n) == Call(n, Null, FALSE, 0, Null, Null, Null)

----------------------------------------------------------------------------
\* The route handlers of MockAcpMerchant: the merchant the session-checkout
\* tools talk to, and the merchant of SpecAcp

\* Map.prototype.set: this.orders.set(orderId, order), this.sessions.set(id, ...)
MapSet(m, k, v) == [x \in (DOMAIN m) \cup {k} |-> IF x = k THEN v ELSE m[x]]

MaxAcpSessions == 2    \* checkout sessions the merchant creates per behaviour

\* AcpCheckoutStatus
AcpStatuses == {"not_ready_for_payment", "ready_for_payment", "in_progress",
                "authentication_required", "completed", "canceled"}

Subtotal     == 2999   \* subtotal of the line items, in minor units
ShippingCost == 599    \* shippingCost.amount

\* The session ids a request may name: those created and one that is unknown
RequestIds == { SessionId(n) : n \in 1..MaxAcpSessions } \cup {"cs_unknown"}

PaymentTokens   == {Null, "tok_mock_success", "tok_mock_failure"}
PaymentHandlers == {Null, "stripe_shared_payment_token"}

\* What a route handler does: the sessions it leaves and the status code it answers
Respond(ss, code) == [sessions |-> ss, code |-> code]

\* authMiddleware
Unauthorized(ss) == Respond(ss, 401)

\* POST /checkout_sessions
AcpCreate(ss, auth, validItems, withShipping) ==
    IF ~auth THEN Unauthorized(ss)
    ELSE IF ~validItems THEN Respond(ss, 400)
    ELSE LET id == SessionId(Cardinality(DOMAIN ss) + 1)
         IN  Respond(MapSet(ss, id,
                        [status |-> IF withShipping THEN "ready_for_payment"
                                                   ELSE "not_ready_for_payment",
                         shipping |-> withShipping,
                         total |-> Subtotal]),
                     201)

\* GET /checkout_sessions/:id
AcpGet(ss, auth, id) ==
    IF ~auth THEN Unauthorized(ss)
    ELSE IF id \notin DOMAIN ss THEN Respond(ss, 404)
    ELSE Respond(ss, 200)

\* POST /checkout_sessions/:id
AcpUpdate(ss, auth, id, withShipping) ==
    IF ~auth THEN Unauthorized(ss)
    ELSE IF id \notin DOMAIN ss THEN Respond(ss, 404)
    ELSE IF ss[id].status = "completed" \/ ss[id].status = "canceled" THEN Respond(ss, 400)
    ELSE IF withShipping
    THEN Respond([ss EXCEPT ![id] = [status |-> "ready_for_payment",
                                     shipping |-> TRUE,
                                     total |-> Subtotal + ShippingCost]], 200)
    ELSE Respond(ss, 200)

CompletableStatus_any(status) == TRUE

\* complete goes on only when state.session.status is 'ready_for_payment'
CompletableStatus(status) == status = "ready_for_payment"

AcpComplete_terminal(ss, auth, id, token, handler) ==
    IF ~auth THEN Unauthorized(ss)
    ELSE IF id \notin DOMAIN ss THEN Respond(ss, 404)
    ELSE IF ~CompletableStatus(ss[id].status) THEN Respond(ss, 400)
    ELSE IF token = Null \/ handler = Null THEN Respond(ss, 400)
    ELSE IF token = "tok_mock_failure"
    THEN Respond([ss EXCEPT ![id].status = "canceled"], 402)
    ELSE Respond([ss EXCEPT ![id].status = "completed"], 200)

\* POST /checkout_sessions/:id/complete
AcpComplete(ss, auth, id, token, handler) ==
    IF ~auth THEN Unauthorized(ss)
    ELSE IF id \notin DOMAIN ss THEN Respond(ss, 404)
    ELSE IF ~CompletableStatus(ss[id].status) THEN Respond(ss, 400)
    ELSE IF token = Null \/ handler = Null THEN Respond(ss, 400)
    ELSE IF token = "tok_mock_failure"
    THEN Respond([ss EXCEPT ![id].status = "not_ready_for_payment"], 402)
    ELSE Respond([ss EXCEPT ![id].status = "completed"], 200)

AcpCancel_any(ss, auth, id) ==
    IF ~auth THEN Unauthorized(ss)
    ELSE IF id \notin DOMAIN ss THEN Respond(ss, 404)
    ELSE Respond([ss EXCEPT ![id].status = "canceled"], 200)

\* POST /checkout_sessions/:id/cancel
AcpCancel(ss, auth, id) ==
    IF ~auth THEN Unauthorized(ss)
    ELSE IF id \notin DOMAIN ss THEN Respond(ss, 404)
    ELSE IF ss[id].status = "completed" THEN Respond(ss, 400)
    ELSE Respond([ss EXCEPT ![id].status = "canceled"], 200)

\* The session POST /checkout_sessions stores for the request of
\* toolInitiateCheckout, which carries line items and no shipping address
CreatedSession == AcpCreate([x \in {} |-> Null], TRUE, TRUE, FALSE).sessions[SessionId(1)]

\* The merchant's session table as far as the agent can still name it: the
\* agent keeps one session id and every id is fresh, so a session whose id the
\* agent dropped is never named again
LastSession(id) == MapSet([x \in {} |-> Null], id, CreatedSession)
Nameable(m, id) == [m EXCEPT !.acp = [x \in (DOMAIN @) \cap {id} |-> @[x]]]

----------------------------------------------------------------------------
\* Tool handlers.  Each operator is the set of the outcomes one call of the
\* handler can have from shopping state s; the merchant's answers (success or
\* failure of a request, the ids it returns) are the choices inside.

\* Array.prototype.findIndex on the cart, 0 standing for the code's -1
FindIndex(crt, productId) ==
    IF \E i \in 1..Len(crt) : crt[i].productId = productId
    THEN CHOOSE i \in 1..Len(crt) :
            /\ crt[i].productId = productId
            /\ \A j \in 1..(i - 1) : crt[j].productId # productId
    ELSE 0

\* Array.prototype.splice(idx, 1)
Splice(crt, idx) ==
    [i \in 1..(Len(crt) - 1) |-> IF i < idx THEN crt[i] ELSE crt[i + 1]]

\* (args.quantity as number) ?? 1
RequestedQuantity(c) == IF c.hasQuantity THEN c.quantity ELSE 1

toolAddToCart_dup(s, c) ==
    { Returns([s EXCEPT !.cart = Append(s.cart,
                  [productId |-> c.productId, quantity |-> RequestedQuantity(c)])],
              Ok("true"), <<>>) }

toolAddToCart(s, c) ==
    LET quantity == RequestedQuantity(c)
        idx      == FindIndex(s.cart, c.productId)
        newCart  == IF idx # 0
                    THEN [s.cart EXCEPT ![idx].quantity = @ + quantity]
                    ELSE Append(s.cart, [productId |-> c.productId, quantity |-> quantity])
    IN  { Returns([s EXCEPT !.cart = newCart], Ok("true"), <<>>) }

toolViewCart(s) == { Returns(s, Ok(""), <<>>) }

toolRemoveFromCart(s, productId) ==
    LET idx == FindIndex(s.cart, productId)
    IN  IF idx = 0
        THEN { Returns(s, Payload(MsgItemNotFound, "false", Null, Null, <<>>), <<>>) }
        ELSE { Returns([s EXCEPT !.cart = Splice(s.cart, idx)], Ok("true"), <<>>) }

EmptyCartCheck_off(s) == FALSE

\* if (this.cart.length === 0)
EmptyCartCheck(s) == Len(s.cart) = 0

toolInitiateCheckout(s) ==
    IF EmptyCartCheck(s)
    THEN { Returns(s, ErrorResult(MsgCartEmpty), <<>>) }
    ELSE IF s.protocol = "acp" /\ s.acpClient
    THEN \* acpClient.createCheckout resolves with a new session, or rejects
         { Returns([s EXCEPT !.checkoutSessionId = SessionId(n), !.merchant.sessions = n,
                             !.merchant.acp = LastSession(SessionId(n))],
                   Payload("", "", SessionId(n), Null, <<>>), <<"acp.createCheckout">>)
             : n \in { s.merchant.sessions + 1 } \cap (1..MaxSessions) }
         \cup { Returns(s, ErrorResult(MsgAcpCheckout), <<"acp.createCheckout">>) }
    ELSE IF s.discovery = <<>>
    THEN \* client.hasCapability -> getDiscovery() throws, outside the try
         { Throws(s, MsgNoDiscovery, <<>>) }
    ELSE IF ~s.discovery[1].checkout
    THEN { Returns(s, ErrorResult(MsgNoCheckoutCap), <<>>) }
    ELSE \* client.callApi('/checkout'); data.sessionId ?? data.id may be undefined
         { Returns([s EXCEPT !.checkoutSessionId = SessionId(n), !.merchant.sessions = n],
                   Payload("", "", SessionId(n), Null, <<>>), <<"ucp.checkout">>)
             : n \in { s.merchant.sessions + 1 } \cap (1..MaxSessions) }
         \cup { Returns([s EXCEPT !.checkoutSessionId = Null],
                        Payload("", "", Null, Null, <<>>), <<"ucp.checkout">>) }
         \cup { Returns(s, ErrorResult(MsgUcpCheckout), <<"ucp.checkout">>) }

toolSubmitShipping(s, address) ==
    IF s.checkoutSessionId = Null
    THEN { Returns(s, ErrorResult(MsgNoSession), <<>>) }
    ELSE LET s1 == [s EXCEPT !.shippingAddress = address]
         IN  IF s.protocol = "acp" /\ s.acpClient
             THEN \* acpClient.updateCheckout resolves with the session the
                  \* merchant answers, or rejects: the merchant refused the
                  \* update or the request failed
                  LET a == AcpUpdate(s.merchant.acp, TRUE, s.checkoutSessionId, TRUE)
                  IN  { IF a.code = 200
                        THEN Returns([s1 EXCEPT !.merchant.acp = a.sessions],
                                     Payload("", "true", s.checkoutSessionId, Null, <<>>),
                                     <<"acp.updateCheckout">>)
                        ELSE Returns(s1, ErrorResult(MsgAcpShipping), <<"acp.updateCheckout">>),
                        Returns(s1, ErrorResult(MsgAcpShipping), <<"acp.updateCheckout">>) }
             ELSE { Returns(s1, Payload("", "true", s.checkoutSessionId, Null, <<>>), <<>>) }

\* Date.now(): a clock that never goes back and may stand still between reads
Now(s) == { t \in s.clock..MaxClock : t <= s.clock + 1 }

\* The order recorded by a successful payment and the state it leaves
PlaceOrder(s, orderId, now) ==
    LET order == [id |-> orderId, status |-> "confirmed", items |-> s.cart,
                  shippingAddress |-> s.shippingAddress, createdAt |-> now]
    IN  [s EXCEPT !.orders = MapSet(s.orders, orderId, order),
                  !.cart = <<>>,
                  !.checkoutSessionId = Null,
                  !.shippingAddress = Null,
                  !.clock = now]

\* the two early returns of toolSubmitPayment: "" when payment may proceed
PaymentGuard(s) ==
    IF s.checkoutSessionId = Null THEN MsgNoSession
    ELSE IF s.shippingAddress = Null THEN MsgShippingFirst
    ELSE ""

PaymentRejected_clears(s, m, reqs) == Returns([s EXCEPT !.cart = <<>>], ErrorResult(m), reqs)

\* the catch blocks of toolSubmitPayment: return { error: `... failed: ${message}` }
PaymentRejected(s, m, reqs) == Returns(s, ErrorResult(m), reqs)

\* payment_handler: paymentMethod ?? 'stripe_shared_payment_token'
PaymentHandler == "stripe_shared_payment_token"

\* toolSubmitPayment past its guards when the merchant answers the payment
\* request: MockAcpMerchant's complete route for 'acp', the mock UCP
\* merchant's /checkout/complete (402 for tok_mock_failure) otherwise
paymentAnswered(s, c) ==
    IF s.protocol = "acp" /\ s.acpClient
    THEN \* orderId = `acp_${session.id}`
         LET a  == AcpComplete(s.merchant.acp, TRUE, s.checkoutSessionId, c.token, PaymentHandler)
             s1 == [s EXCEPT !.merchant.acp = a.sessions]
         IN  IF a.code = 200
             THEN { Returns(PlaceOrder(s1, "acp_" \o s.checkoutSessionId, now),
                            Payload("", "true", Null, "acp_" \o s.checkoutSessionId,
                                    << PlaceOrder(s1, "acp_" \o s.checkoutSessionId, now).orders[
                                          "acp_" \o s.checkoutSessionId] >>),
                            <<"acp.completeCheckout">>)
                      : now \in Now(s) }
             ELSE { PaymentRejected(s1, IF a.code = 402 THEN MsgAcpDeclined ELSE MsgAcpPayment,
                                    <<"acp.completeCheckout">>) }
    ELSE IF s.discovery = <<>>
    THEN {}
    ELSE IF c.token = "tok_mock_failure"
    THEN { PaymentRejected(s, MsgUcpDeclined, <<"ucp.checkoutComplete">>) }
    ELSE \* data.orderId ?? data.id ?? `ord_${Date.now()}`
         { Returns([PlaceOrder(s, MerchantOrderId(s.merchant.orders + 1), now)
                       EXCEPT !.merchant.orders = @ + 1],
                   Payload("", "true", Null, MerchantOrderId(s.merchant.orders + 1),
                           << PlaceOrder(s, MerchantOrderId(s.merchant.orders + 1), now).orders[
                                 MerchantOrderId(s.merchant.orders + 1)] >>),
                   <<"ucp.checkoutComplete">>)
             : now \in Now(s) }
         \cup
         { Returns(PlaceOrder(s, "ord_" \o ToString(now), now),
                   Payload("", "true", Null, "ord_" \o ToString(now),
                           << PlaceOrder(s, "ord_" \o ToString(now), now).orders["ord_" \o ToString(now)] >>),
                   <<"ucp.checkoutComplete">>)
             : now \in Now(s) }

\* toolSubmitPayment when the payment request fails before any answer: the
\* fetch rejects, or client.callApi throws for want of a discovery
paymentUnanswered(s) ==
    IF s.protocol = "acp" /\ s.acpClient
    THEN PaymentRejected(s, MsgAcpPayment, <<"acp.completeCheckout">>)
    ELSE IF s.discovery = <<>>
    THEN PaymentRejected(s, MsgUcpPayment, <<>>)
    ELSE PaymentRejected(s, MsgUcpPayment, <<"ucp.checkoutComplete">>)

toolSubmitPayment(s, c) ==
    IF PaymentGuard(s) # ""
    THEN { Returns(s, ErrorResult(PaymentGuard(s)), <<>>) }
    ELSE paymentAnswered(s, c) \cup { paymentUnanswered(s) }

toolGetOrderStatus(s, orderId) ==
    IF orderId \in DOMAIN s.orders
    THEN { Returns(s, Payload("", "", Null, orderId, << s.orders[orderId] >>), <<>>) }
    ELSE { Returns(s, ErrorResult(MsgOrderNotFound), <<>>) }

fetchMerchantApi_callApi(s) ==
    IF s.discovery = <<>>
    THEN { [ok |-> FALSE, message |-> MsgNoDiscovery, requests |-> <<>>] }
    ELSE { [ok |-> TRUE, message |-> "", requests |-> <<"ucp.callApi">>],
           [ok |-> FALSE, message |-> MsgApi, requests |-> <<"ucp.callApi">>] }

\* fetchMerchantApi: a direct fetch for ACP, UcpClient.callApi otherwise
fetchMerchantApi(s) ==
    IF s.protocol = "acp" /\ s.acpBaseUrl # Null
    THEN { [ok |-> TRUE, message |-> "", requests |-> <<"acp.fetch">>],
           [ok |-> FALSE, message |-> MsgApi, requests |-> <<"acp.fetch">>] }
    ELSE IF s.discovery = <<>>
    THEN { [ok |-> FALSE, message |-> MsgNoDiscovery, requests |-> <<>>] }
    ELSE { [ok |-> TRUE, message |-> "", requests |-> <<"ucp.callApi">>],
           [ok |-> FALSE, message |-> MsgApi, requests |-> <<"ucp.callApi">>] }

\* toolGetProduct lets the error of fetchMerchantApi through
toolGetProduct(s, productId) ==
    { IF r.ok THEN Returns(s, Ok(""), r.requests) ELSE Throws(s, r.message, r.requests)
        : r \in fetchMerchantApi(s) }

\* toolBrowseProducts when fetchMerchantApi answered r: the catch swallows the
\* error and answers with an empty page
browseProducts(s, r) == Returns(s, Ok(""), r.requests)

toolBrowseProducts(s) ==
    { browseProducts(s, r) : r \in fetchMerchantApi(s) }

\* toolSearchProducts when the search request answered r1 and the fallback
\* request (browse all, sent when the search failed) answered r2: an empty
\* list when both failed
searchProducts(s, r1, r2) ==
    IF r1.ok THEN Returns(s, Ok(""), r1.requests)
    ELSE Returns(s, Ok(""), r1.requests \o r2.requests)

toolSearchProducts(s) ==
    { searchProducts(s, r1, r2) : r1 \in fetchMerchantApi(s), r2 \in fetchMerchantApi(s) }

toolListCapabilities(s) ==
    IF s.protocol = "acp" THEN { Returns(s, Ok(""), <<>>) }
    ELSE IF s.discovery = <<>> THEN { Throws(s, MsgNoDiscovery, <<>>) }
    ELSE { Returns(s, Ok(""), <<>>) }

\* What the merchant answers to client.discover(domain): no profile, a profile
\* with or without the checkout capability, or a profile whose payment.handlers
\* is not an array, on which discovery.paymentHandlers.map throws inside the try
DiscoveryAnswers == {"fail", "checkout", "no_checkout", "bad_handlers"}

\* What the session-checkout endpoint answers to /health and to /products: no
\* 2xx answer, a 2xx answer with a JSON body, a 2xx answer whose body
\* res.json() rejects (read for /health only)
ProbeAnswers == {"fail", "ok", "ok_not_json"}

\* toolDiscoverMerchant reaches the session-checkout branch: the try block
\* around client.discover did not return
ReachesAcpBranch(answer) == answer \in {"fail", "bad_handlers"}

\* toolDiscoverMerchant with the merchant's answers given
discoverMerchant(s, ucp, health, products) ==
    LET found == IF ucp = "fail" THEN s
                 ELSE [s EXCEPT !.protocol = "ucp",
                                !.discovery = << [checkout |-> (ucp # "no_checkout")] >>]
    IN  IF ~ReachesAcpBranch(ucp)
        THEN Returns(found, Ok(""), <<"ucp.discover">>)
        ELSE IF ~s.acpClient
        THEN Returns(found, ErrorResult(MsgNoMerchant), <<"ucp.discover">>)
        ELSE LET s1 == [found EXCEPT !.acpBaseUrl = "acp_endpoint"]
                 \* this.protocol = 'acp' precedes await res.json()
                 s2 == IF health = "fail" THEN s1 ELSE [s1 EXCEPT !.protocol = "acp"]
             IN  IF health = "ok"
                 THEN Returns(s2, Ok(""), <<"ucp.discover", "acp.health">>)
                 ELSE IF products # "fail"
                 THEN Returns([s2 EXCEPT !.protocol = "acp"], Ok(""),
                              <<"ucp.discover", "acp.health", "acp.products">>)
                 ELSE Returns(s2, ErrorResult(MsgNoMerchant),
                              <<"ucp.discover", "acp.health", "acp.products">>)

toolDiscoverMerchant(s) ==
    { discoverMerchant(s, ucp, health, products) :
        ucp \in DiscoveryAnswers, health \in ProbeAnswers, products \in ProbeAnswers }

\* The plugins registered with the agent and what their handlers do
PluginNames == {"check_reviews", "notify"}

pluginHandler(s, name) ==
    IF name = "check_reviews"
    THEN { Returns(s, Ok(""), <<>>), Throws(s, MsgPlugin, <<>>) }
    ELSE { Returns(s, Undefined, <<>>) }      \* a handler without return value

executeTool(s, c) ==
    CASE c.name = "discover_merchant" -> toolDiscoverMerchant(s)
      [] c.name = "list_capabilities" -> toolListCapabilities(s)
      [] c.name = "browse_products"   -> toolBrowseProducts(s)
      [] c.name = "search_products"   -> toolSearchProducts(s)
      [] c.name = "get_product"       -> toolGetProduct(s, c.productId)
      [] c.name = "add_to_cart"       -> toolAddToCart(s, c)
      [] c.name = "view_cart"         -> toolViewCart(s)
      [] c.name = "remove_from_cart"  -> toolRemoveFromCart(s, c.productId)
      [] c.name = "initiate_checkout" -> toolInitiateCheckout(s)
      [] c.name = "submit_shipping"   -> toolSubmitShipping(s, c.address)
      [] c.name = "submit_payment"    -> toolSubmitPayment(s, c)
      [] c.name = "get_order_status"  -> toolGetOrderStatus(s, c.orderId)
      [] OTHER -> IF c.name \in PluginNames
                  THEN pluginHandler(s, c.name)
                  ELSE { Returns(s, ErrorResult(MsgUnknownTool), <<>>) }

----------------------------------------------------------------------------
\* The tool surface (SpecTools)

EmptyMap == [x \in {} |-> Null]

InitShop ==
    /\ protocol = Null
    /\ acpBaseUrl = Null
    /\ discovery = <<>>
    /\ cart = <<>>
    /\ checkoutSessionId = Null
    /\ shippingAddress = Null
    /\ orders = EmptyMap
    /\ clock = 0
    /\ merchant = [sessions |-> 0, orders |-> 0, acp |-> EmptyMap]

InitObs ==
    /\ guardsHit = {}
    /\ addedSum = [p \in ProductIds |-> [added |-> FALSE, sum |-> 0]]
    /\ shippingAccepted = FALSE
    /\ shippedFor = Null
    /\ paySuccesses = 0
    /\ adds = 0

\* The loop is not running in SpecTools
InitLoopIdle ==
    /\ maxIterations = 0
    /\ supportsStreaming = FALSE
    /\ mode = "none"
    /\ pc = "idle"
    /\ iteration = 0
    /\ messages = <<>>
    /\ steps = <<>>
    /\ events = <<>>
    /\ turnCalls = <<>>
    /\ started = 0
    /\ inflight = {}
    /\ agentResult = <<>>
    /\ llmCalls = 0
    /\ lastResponse = <<>>
    /\ requested = {}
    /\ allToolTurns = TRUE
    /\ execLog = <<>>

\* A UcpClient without discovery and its McpClient before any call
InitApiIdle ==
    /\ services = <<>>
    /\ apiPc = "idle"
    /\ apiTransport = "auto"
    /\ apiAttempts = <<>>
    /\ apiMcp = "none"
    /\ apiRpcId = 0
    /\ apiResult = "none"
    /\ apiCalls = 0
    /\ requestId = 0
    /\ envelopes = <<>>
    /\ pending = {}
    /\ httpError = <<>>
    /\ bodyError = <<>>

\* UcpClient.discover has not been called
InitDiscoverIdle ==
    /\ discDomain = "none"
    /\ discPc = "idle"
    /\ probes = <<>>
    /\ responses = <<>>
    /\ discError = "none"
    /\ discCaps = <<>>

\* No request has been handled
NoRequest == [op |-> "none", id |-> Null, code |-> 0, before |-> Null]

\* A MockAcpMerchant without sessions
InitAcp ==
    /\ sessions = EmptyMap
    /\ acpLast = NoRequest

\* No constructor call is followed
InitCtorIdle ==
    /\ pluginInput = <<>>
    /\ ctorPc = "new"
    /\ allTools = <<>>
    /\ sentTools = <<>>
    /\ sentCount = 0

\* run() has not been called
InitTrace ==
    /\ runStart = 0
    /\ runs = 0

\* No tool execution is waiting for the network
InitNet ==
    /\ netPc = "idle"
    /\ netKind = Null
    /\ netLog = <<>>

\* A tracer that has started no span
InitSpans ==
    /\ spans = <<>>
    /\ spanPc = "idle"
    /\ spanIter = 0
    /\ spanCalls = [llm |-> 0, tool |-> 0]
    /\ spanLeft = 0

\* const messages = [{ role: 'user', content: task }]
InitHistory ==
    /\ history = << [role |-> "user", toolCalls |-> <<>>, toolCallId |-> Null, answers |-> Null] >>
    /\ histPc = "llm"
    /\ histLeft = <<>>
    /\ idCount = 0
    /\ resolved = <<>>

\* No checkout session was opened yet
InitOrderLog == checkoutCart = <<>>

\* The components that are not exercised on their own
InitOthersIdle ==
    InitCtorIdle /\ InitTrace /\ InitNet /\ InitSpans /\ InitHistory /\ InitOrderLog

\* The protocol clients are not exercised on their own in Spec and SpecTools
InitClientsIdle ==
    /\ InitApiIdle
    /\ capInput = <<>>
    /\ capShape = "array"
    /\ InitDiscoverIdle
    /\ InitAcp
    /\ InitOthersIdle

\* The order ids a get_order_status call may ask for
AskedOrderIds == {MerchantOrderId(1), "ord_unknown"}

\* The tool calls an adapter may request
ToolCalls ==
    { Call("add_to_cart", p, FALSE, 0, Null, Null, Null) : p \in ProductIds }
    \cup { Call("add_to_cart", p, TRUE, q, Null, Null, Null) : p \in ProductIds, q \in Quantities }
    \cup { Call("remove_from_cart", p, FALSE, 0, Null, Null, Null) : p \in ProductIds }
    \cup { Call("get_product", "prod_webcam", FALSE, 0, Null, Null, Null) }
    \cup { PlainCall(n) : n \in {"discover_merchant", "list_capabilities", "browse_products",
                                 "search_products", "view_cart", "initiate_checkout",
                                 "check_reviews", "notify", "no_such_tool"} }
    \cup { Call("submit_shipping", Null, FALSE, 0, Null, Null, a) : a \in Addresses }
    \cup { Call("submit_payment", Null, FALSE, 0, Null, t, Null) : t \in Tokens }
    \cup { Call("get_order_status", Null, FALSE, 0, o, Null, Null) : o \in AskedOrderIds }

WrapResult_nocatch(o) == o.result

\* the try/catch around executeTool in run() and runStream()
WrapResult(o) == IF o.threw THEN ErrorResult(o.message) ELSE o.result

\* The merchant accepted the payment of this submit_payment call
PaymentSucceeded(c, o) ==
    /\ c.name = "submit_payment"
    /\ ~o.threw
    /\ o.result.success = "true"

\* The error messages whose occurrence is observed
ObservedGuards == {MsgCartEmpty, MsgAcpPayment, MsgUcpPayment, MsgAcpDeclined, MsgUcpDeclined}

\* The state after tool call c had outcome o, and what was observed of it
ApplyOutcome(c, o) ==
    /\ acpClient' = o.shop.acpClient
    /\ protocol' = o.shop.protocol
    /\ acpBaseUrl' = o.shop.acpBaseUrl
    /\ discovery' = o.shop.discovery
    /\ cart' = o.shop.cart
    /\ checkoutSessionId' = o.shop.checkoutSessionId
    /\ shippingAddress' = o.shop.shippingAddress
    /\ orders' = o.shop.orders
    /\ clock' = o.shop.clock
    /\ merchant' = Nameable(o.shop.merchant, o.shop.checkoutSessionId)
    /\ guardsHit' = {WrapResult(o).error} \cap ObservedGuards
    /\ addedSum' = [p \in ProductIds |->
          IF PaymentSucceeded(c, o) \/ (c.name = "remove_from_cart" /\ c.productId = p)
          THEN [added |-> FALSE, sum |-> 0]
          ELSE IF c.name = "add_to_cart" /\ c.productId = p
          THEN [added |-> TRUE,
                sum |-> addedSum[p].sum + (IF c.hasQuantity THEN c.quantity ELSE 1)]
          ELSE addedSum[p]]
    /\ shippingAccepted' =
          IF PaymentSucceeded(c, o) THEN FALSE
          ELSE IF c.name = "submit_shipping" /\ ~o.threw /\ o.result.error = "" THEN TRUE
          ELSE shippingAccepted
    /\ shippedFor' =
          IF PaymentSucceeded(c, o) THEN Null
          ELSE IF c.name = "submit_shipping" /\ ~o.threw /\ o.result.error = ""
          THEN checkoutSessionId
          ELSE shippedFor
    /\ paySuccesses' = IF PaymentSucceeded(c, o) THEN paySuccesses + 1 ELSE paySuccesses
    /\ adds' = IF c.name = "add_to_cart" THEN adds + 1 ELSE adds

\* The bounds on what a behaviour may request
WithinBounds(c) == c.name = "add_to_cart" => adds < MaxAdds

\* One dispatched tool call: executeTool(toolCall) inside the loop's try/catch
ToolCallStep(c) ==
    /\ WithinBounds(c)
    /\ \E o \in executeTool(ShopState, c) : ApplyOutcome(c, o)
    /\ UNCHANGED <<loopVars, clientVars>>

CartTool      == \E c \in ToolCalls : c.name \in {"add_to_cart", "remove_from_cart", "view_cart"} /\ ToolCallStep(c)
CheckoutTool  == \E c \in ToolCalls : c.name \in {"initiate_checkout", "submit_shipping", "submit_payment", "get_order_status"} /\ ToolCallStep(c)
CatalogTool   == \E c \in ToolCalls : c.name \in {"discover_merchant", "list_capabilities", "browse_products", "search_products", "get_product"} /\ ToolCallStep(c)
OtherTool     == \E c \in ToolCalls : c.name \in {"check_reviews", "notify", "no_such_tool"} /\ ToolCallStep(c)

InitTools == acpClient \in BOOLEAN /\ InitShop /\ InitObs /\ InitLoopIdle /\ InitClientsIdle
NextTools == CartTool \/ CheckoutTool \/ CatalogTool \/ OtherTool
SpecTools == InitTools /\ [][NextTools]_vars

----------------------------------------------------------------------------
\* The orchestrator loop (Spec): run() and runStream()

\* What the adapter may answer
Contents      == {"", "text"}
FinishReasons == {"stop", "tool_calls"}
LoopCalls ==
    { Call("add_to_cart", "prod_webcam", FALSE, 0, Null, Null, Null),
      PlainCall("check_reviews"), PlainCall("notify") }
SeqsUpTo(S, n) == UNION { [1..k -> S] : k \in 0..n }
Responses ==
    [content : Contents, toolCalls : SeqsUpTo(LoopCalls, MaxCalls), finishReason : FinishReasons]

\* AgentStep, as recordStep builds it
Step(it, type, toolName, content, output) ==
    [iteration |-> it, type |-> type, toolName |-> toolName,
     content |-> content, toolOutput |-> output]

\* ChatMessage; the content of a tool message is JSON.stringify(result)
Message(role, content, calls, toolCallId, result) ==
    [role |-> role, content |-> content, toolCalls |-> calls,
     toolCallId |-> toolCallId, json |-> result]

\* AgentStreamEvent
Event(it, type, text, toolName, output, res) ==
    [type |-> type, iteration |-> it, text |-> text, toolName |-> toolName,
     toolOutput |-> output, result |-> res]

\* buildResult(success, answer), given this.steps
buildResult(success, answer, stps, it) ==
    [success |-> success, answer |-> answer, steps |-> stps, iterations |-> it]

LoopContinues_off(it, max) == it <= max

\* while (this.iteration < this.options.maxIterations)
LoopContinues(it, max) == it < max

runTerminates_stopOnly(finishReason, calls) == finishReason = "stop"

\* run(): if (llmResponse.finishReason === 'stop' || llmResponse.toolCalls.length === 0)
runTerminates(finishReason, calls) == finishReason = "stop" \/ Len(calls) = 0

\* runStream(): if (toolCalls.length === 0)
streamTerminates(calls) == Len(calls) = 0

AwaitSettled_off(inf) == TRUE

\* result = await this.executeTool(toolCall): the for loop goes on only when
\* the execution it started has settled
AwaitSettled(inf) == inf = {}

Emit(evs) == events' = IF mode = "runStream" THEN events \o evs ELSE events

StartRun ==
    /\ pc = "idle"
    /\ \E m \in {"run", "runStream"} : mode' = m
    \* const supportsStreaming = typeof adapter.chatStream === 'function'
    /\ IF mode' = "runStream" THEN supportsStreaming' \in BOOLEAN
                              ELSE supportsStreaming' = supportsStreaming
    /\ messages' = << Message("user", "task", <<>>, Null, NoResult) >>
    /\ iteration' = 0
    /\ pc' = "loop"
    /\ UNCHANGED <<maxIterations, steps, events, turnCalls, started,
                   inflight, agentResult, llmCalls, lastResponse, requested,
                   allToolTurns, execLog, shopVars, obsVars, clientVars>>

\* The part of an iteration after the adapter answered with textContent and
\* toolCalls: the thinking step, the termination rule, the assistant message
AfterResponse(it, textContent, calls, terminates, evs) ==
    LET steps1 == IF textContent # ""
                  THEN Append(steps, Step(it, "thinking", "", textContent, NoResult))
                  ELSE steps
    IN  /\ steps' = steps1
        /\ IF terminates
           THEN /\ agentResult' = << buildResult(TRUE, textContent, steps1, it) >>
                /\ Emit(evs \o << Event(it, "done", "", "", NoResult,
                                        << buildResult(TRUE, textContent, steps1, it) >>) >>)
                /\ pc' = "returned"
                /\ UNCHANGED <<messages, turnCalls, started, inflight>>
           ELSE /\ messages' = Append(messages,
                                      Message("assistant", textContent, calls, Null, NoResult))
                /\ turnCalls' = calls
                /\ started' = 0
                /\ inflight' = {}
                /\ Emit(evs)
                /\ pc' = IF Len(calls) = 0 THEN "loop" ELSE "tools"
                /\ UNCHANGED agentResult

Invoked(r) ==
    /\ iteration' = iteration + 1
    /\ llmCalls' = llmCalls + 1
    /\ lastResponse' = << r >>
    /\ requested' = requested \cup { <<iteration + 1, i>> : i \in 1..Len(r.toolCalls) }
    /\ allToolTurns' = (allToolTurns /\ Len(r.toolCalls) > 0)

bufferedTextDelta_always(it, textContent) ==
    << Event(it, "text_delta", textContent, "", NoResult, <<>>) >>

\* runStream() without chatStream: if (textContent) yield one text_delta with
\* the whole text
bufferedTextDelta(it, textContent) ==
    IF textContent # "" THEN << Event(it, "text_delta", textContent, "", NoResult, <<>>) >>
                        ELSE <<>>

\* await llm.chat(messages, tools): run(), and runStream() without chatStream
LlmChat ==
    /\ pc = "loop"
    /\ LoopContinues(iteration, maxIterations)
    /\ mode = "run" \/ ~supportsStreaming
    /\ \E r \in Responses :
         /\ Invoked(r)
         /\ AfterResponse(iteration + 1, r.content, r.toolCalls,
               IF mode = "run" THEN runTerminates(r.finishReason, r.toolCalls)
                               ELSE streamTerminates(r.toolCalls),
               bufferedTextDelta(iteration + 1, r.content))
    /\ UNCHANGED <<maxIterations, supportsStreaming, mode, execLog, shopVars, obsVars, clientVars>>

\* for await (chunk of adapter.chatStream(...)): the text arrives as a delta,
\* in the done response or in both; the tool calls arrive as tool_call_complete
\* chunks, in the done response or in both
LlmChatStream ==
    /\ pc = "loop"
    /\ LoopContinues(iteration, maxIterations)
    /\ mode = "runStream" /\ supportsStreaming
    /\ \E r \in Responses, textDelta, textDone, callChunks, callsDone \in BOOLEAN :
         /\ (textDelta \/ textDone) <=> r.content # ""
         /\ (callChunks \/ callsDone) <=> Len(r.toolCalls) > 0
         /\ Invoked(r)
         /\ LET streamed    == IF textDelta THEN r.content ELSE ""
                fromChunks  == IF callChunks THEN r.toolCalls ELSE <<>>
                doneContent == IF textDone THEN r.content ELSE ""
                doneCalls   == IF callsDone THEN r.toolCalls ELSE <<>>
                \* textContent = chunk.response.content || textContent
                textContent == IF doneContent # "" THEN doneContent ELSE streamed
                \* toolCalls = response.toolCalls.length > 0 ? response.toolCalls : toolCalls
                calls       == IF Len(doneCalls) > 0 THEN doneCalls ELSE fromChunks
            IN  AfterResponse(iteration + 1, textContent, calls, streamTerminates(calls),
                   IF textDelta THEN << Event(iteration + 1, "text_delta", streamed, "", NoResult, <<>>) >>
                                ELSE <<>>)
    /\ UNCHANGED <<maxIterations, supportsStreaming, mode, execLog, shopVars, obsVars, clientVars>>

\* The adapter throws: run() rejects, runStream() yields an error event
LlmFails ==
    /\ pc = "loop"
    /\ LoopContinues(iteration, maxIterations)
    /\ iteration' = iteration + 1
    /\ llmCalls' = llmCalls + 1
    /\ Emit(<< Event(iteration + 1, "error", MsgAdapter, "", NoResult, <<>>) >>)
    /\ pc' = IF mode = "run" THEN "rejected" ELSE "returned"
    /\ allToolTurns' = FALSE
    /\ UNCHANGED <<maxIterations, supportsStreaming, mode, messages, steps, turnCalls,
                   started, inflight, agentResult, lastResponse, requested,
                   execLog, shopVars, obsVars, clientVars>>

\* for (const toolCall of toolCalls): the tool_call step and the call of executeTool
ToolStart ==
    /\ pc = "tools"
    /\ started < Len(turnCalls)
    /\ AwaitSettled(inflight)
    /\ LET c == turnCalls[started + 1]
       IN  /\ steps' = Append(steps, Step(iteration, "tool_call", c.name, "", NoResult))
           /\ Emit(<< Event(iteration, "tool_call", "", c.name, NoResult, <<>>) >>)
           /\ execLog' = Append(execLog, [iteration |-> iteration, index |-> started + 1,
                                          name |-> c.name, outcome |-> "pending",
                                          message |-> ""])
    /\ started' = started + 1
    /\ inflight' = inflight \cup {started + 1}
    /\ UNCHANGED <<maxIterations, supportsStreaming, mode, pc, iteration, messages,
                   turnCalls, agentResult, llmCalls, lastResponse, requested,
                   allToolTurns, shopVars, obsVars, clientVars>>

\* The execution settles: the catch, the tool_result step, the log line that
\* stringifies the result, the tool_result event and the tool message
ToolFinish ==
    /\ pc = "tools"
    /\ \E i \in inflight :
       \E o \in executeTool(ShopState, turnCalls[i]) :
         LET c      == turnCalls[i]
             result == WrapResult(o)
             k      == CHOOSE n \in 1..Len(execLog) :
                          execLog[n].iteration = iteration /\ execLog[n].index = i
         IN  /\ ApplyOutcome(c, o)
             /\ execLog' = [execLog EXCEPT ![k].outcome = IF o.threw THEN "threw" ELSE "returned",
                                           ![k].message = o.message]
             /\ inflight' = inflight \ {i}
             /\ IF result.kind = "object"
                THEN /\ steps' = Append(steps, Step(iteration, "tool_result", c.name, "", result))
                     /\ Emit(<< Event(iteration, "tool_result", "", c.name, result, <<>>) >>)
                     /\ messages' = Append(messages, Message("tool", "", <<>>, c.name, result))
                     /\ pc' = IF started = Len(turnCalls) /\ inflight' = {}
                              THEN "loop" ELSE "tools"
                ELSE IF result.kind = "undefined"
                THEN \* JSON.stringify(result) is undefined: .slice throws outside the try
                     /\ steps' = Append(steps, Step(iteration, "tool_result", c.name, "", result))
                     /\ Emit(<< Event(iteration, "error", MsgSlice, "", NoResult, <<>>) >>)
                     /\ pc' = IF mode = "run" THEN "rejected" ELSE "returned"
                     /\ UNCHANGED messages
                ELSE \* an error of executeTool that nothing caught
                     /\ Emit(<< Event(iteration, "error", o.message, "", NoResult, <<>>) >>)
                     /\ pc' = IF mode = "run" THEN "rejected" ELSE "returned"
                     /\ UNCHANGED <<steps, messages>>
    /\ UNCHANGED <<maxIterations, supportsStreaming, mode, iteration, turnCalls, started,
                   agentResult, llmCalls, lastResponse, requested, allToolTurns, clientVars>>

\* Max iterations reached
MaxIterationsExit ==
    /\ pc = "loop"
    /\ ~LoopContinues(iteration, maxIterations)
    /\ agentResult' = << buildResult(FALSE, MsgMaxIterations, steps, iteration) >>
    /\ Emit(<< Event(iteration, "done", "", "", NoResult, << buildResult(FALSE, MsgMaxIterations, steps, iteration) >>) >>)
    /\ pc' = "returned"
    /\ UNCHANGED <<maxIterations, supportsStreaming, mode, iteration, messages, steps,
                   turnCalls, started, inflight, llmCalls, lastResponse, requested,
                   allToolTurns, execLog, shopVars, obsVars, clientVars>>

InitLoop ==
    /\ maxIterations \in 0..MaxIter
    /\ supportsStreaming = FALSE
    /\ mode = "none"
    /\ pc = "idle"
    /\ iteration = 0
    /\ messages = <<>>
    /\ steps = <<>>
    /\ events = <<>>
    /\ turnCalls = <<>>
    /\ started = 0
    /\ inflight = {}
    /\ agentResult = <<>>
    /\ llmCalls = 0
    /\ lastResponse = <<>>
    /\ requested = {}
    /\ allToolTurns = TRUE
    /\ execLog = <<>>

\* an agent constructed without acpOptions
Init == acpClient = FALSE /\ InitShop /\ InitObs /\ InitLoop /\ InitClientsIdle
Next == StartRun \/ LlmChat \/ LlmChatStream \/ LlmFails \/ ToolStart \/ ToolFinish
           \/ MaxIterationsExit
Spec == Init /\ [][Next]_vars

----------------------------------------------------------------------------
\* Properties of the orchestrator loop (checked under Spec)

\* The tool messages appended since the last assistant message
ToolMessagesOfTurn ==
    LET a == CHOOSE n \in 0..Len(messages) :
                /\ n > 0 => messages[n].role = "assistant"
                /\ \A m \in (n + 1)..Len(messages) : messages[m].role # "assistant"
    IN  SubSeq(messages, a + 1, Len(messages))

\* C1: for any adapter behaviour and any maxIterations N >= 0, one run() or
\* runStream() invokes the adapter at most N times, and the iterations value
\* it reports (in its result, in its done or error event) is the number of
\* adapter invocations it made.
C1_IterationBound ==
    /\ llmCalls <= maxIterations
    /\ agentResult # <<>> => agentResult[1].iterations = llmCalls
    /\ \A i \in 1..Len(events) :
          events[i].type \in {"done", "error"} => events[i].iteration = llmCalls

C1_Witness ==
    /\ pc = "returned"
    /\ agentResult # <<>>
    /\ maxIterations >= 2
    /\ llmCalls = maxIterations

\* C2: every tool call contained in an adapter response has been executed
\* exactly once when run() / runStream() hands out its result.
C2_EveryToolCallExecutedOnce ==
    (pc = "returned" /\ agentResult # <<>>) =>
        \A q \in requested :
            Cardinality({ k \in 1..Len(execLog) :
                            execLog[k].iteration = q[1] /\ execLog[k].index = q[2] }) = 1

\* C3: the tool calls of one turn are executed in the order requested, each
\* one starting only after the one before has settled and its tool message is
\* in the history; never are two executions in flight.
C3_SequentialToolExecution ==
    /\ Cardinality(inflight) <= 1
    /\ \A k \in 1..Len(execLog) :
          /\ execLog[k].index =
                1 + Cardinality({ j \in 1..(k - 1) : execLog[j].iteration = execLog[k].iteration })
          /\ k < Len(execLog) => execLog[k].outcome # "pending"
          /\ k < Len(execLog) => execLog[k].iteration <= execLog[k + 1].iteration
    /\ pc = "tools" =>
          /\ inflight \subseteq {started}
          /\ Len(ToolMessagesOfTurn) = started - Cardinality(inflight)
          /\ \A n \in 1..Len(ToolMessagesOfTurn) :
                /\ ToolMessagesOfTurn[n].role = "tool"
                /\ ToolMessagesOfTurn[n].toolCallId = turnCalls[n].name

C3_Witness ==
    /\ pc = "tools"
    /\ inflight = {2}
    /\ Len(ToolMessagesOfTurn) = 1

\* C4: when the execution of a tool call throws, the recorded tool result is
\* {error: <message>}, fed back as a tool message; the loop goes on with the
\* next tool call of the turn or, after the last one, with the loop head
\* (the next LLM call, the iteration cap permitting); run() does not reject.
C4_ToolErrorIsFedBack ==
    [][ \A k \in 1..Len(execLog) :
          (execLog[k].outcome = "pending" /\ execLog'[k].outcome = "threw") =>
             /\ steps' = Append(steps, [iteration |-> execLog[k].iteration,
                                        type |-> "tool_result",
                                        toolName |-> execLog[k].name,
                                        content |-> "",
                                        toolOutput |-> ErrorResult(execLog'[k].message)])
             /\ Len(messages') = Len(messages) + 1
             /\ messages'[Len(messages')].role = "tool"
             /\ messages'[Len(messages')].json = ErrorResult(execLog'[k].message)
             /\ IF execLog[k].index < Len(turnCalls)
                THEN pc' = "tools" /\ inflight' = {} /\ started' < Len(turnCalls)
                ELSE pc' = "loop" /\ iteration' = execLog[k].iteration
      ]_vars

C4_Witness ==
    /\ llmCalls = 2
    /\ \E k \in 1..Len(execLog) :
          /\ execLog[k].outcome = "threw"
          /\ execLog[k].iteration = 1
          /\ execLog[k].index = 1
          /\ \E j \in 1..Len(execLog) : execLog[j].iteration = 1 /\ execLog[j].index = 2

\* C5: run() ends in the iteration whose adapter response carries no tool
\* call: success = true, the answer is the response's text, no tool was
\* executed in that iteration and the run is over (no further LLM call).
C5_ZeroCallsEndsRun ==
    (mode = "run" /\ lastResponse # <<>> /\ Len(lastResponse[1].toolCalls) = 0) =>
        /\ pc = "returned"
        /\ agentResult # <<>>
        /\ agentResult[1].success
        /\ agentResult[1].answer = lastResponse[1].content
        /\ agentResult[1].iterations = llmCalls
        /\ \A k \in 1..Len(execLog) : execLog[k].iteration # iteration

C5_Witness ==
    /\ mode = "run"
    /\ pc = "returned"
    /\ llmCalls = 2
    /\ lastResponse # <<>>
    /\ Len(lastResponse[1].toolCalls) = 0
    /\ lastResponse[1].finishReason = "tool_calls"
    /\ lastResponse[1].content = "text"

\* C6: if the adapter requested tool calls in all maxIterations iterations,
\* run() returns (does not throw) success = false, iterations = maxIterations
\* and the explanatory answer, and runStream() ends with a done event
\* carrying such a result.
C6_ExhaustionReportsFailure ==
    (pc \in {"returned", "rejected"} /\ allToolTurns /\ llmCalls = maxIterations) =>
        /\ pc = "returned"
        /\ agentResult # <<>>
        /\ ~agentResult[1].success
        /\ agentResult[1].iterations = maxIterations
        /\ agentResult[1].answer = MsgMaxIterations
        /\ mode = "runStream" =>
              /\ Len(events) > 0
              /\ events[Len(events)].type = "done"
              /\ events[Len(events)].result = agentResult

----------------------------------------------------------------------------
\* Properties of the tool surface (checked under SpecTools)

\* C7: the cart holds at most one line per productId, and while a product
\* has only been added (no removal, no purchase) its line's quantity is the
\* sum of the requested quantities, an omitted quantity counting as 1.
C7_CartLinePerProduct ==
    /\ \A i, j \in 1..Len(cart) : i # j => cart[i].productId # cart[j].productId
    /\ \A p \in ProductIds :
          addedSum[p].added =>
             \E i \in 1..Len(cart) :
                cart[i].productId = p /\ cart[i].quantity = addedSum[p].sum

C7_Witness ==
    /\ Len(cart) = 1
    /\ cart[1].quantity = 3
    /\ addedSum[cart[1].productId] = [added |-> TRUE, sum |-> 3]

\* C8: initiate_checkout with an empty cart returns an error payload, sends
\* no request to the merchant and leaves the checkout session id (and all the
\* shopping state) as it was, whichever protocol is bound.
C8_EmptyCartCheckoutRejected ==
    cart = <<>> =>
        \A o \in executeTool(ShopState, PlainCall("initiate_checkout")) :
            /\ ~o.threw
            /\ o.result.error # ""
            /\ o.requests = <<>>
            /\ o.shop.checkoutSessionId = checkoutSessionId
            /\ o.shop = ShopState

C8_Witness ==
    /\ MsgCartEmpty \in guardsHit
    /\ cart = <<>>
    /\ protocol = "acp"
    /\ checkoutSessionId # Null

\* C9: while a checkout session exists and no submit_shipping has been
\* accepted, submit_payment returns an error payload that references shipping
\* and sends no payment request to the merchant, whichever protocol is bound.
C9_PaymentNeedsAcceptedShipping ==
    (checkoutSessionId # Null /\ ~shippingAccepted) =>
        \A t \in Tokens :
        \A o \in executeTool(ShopState, Call("submit_payment", Null, FALSE, 0, Null, t, Null)) :
            /\ ~o.threw
            /\ o.result.error \in ShippingMessages
            /\ o.requests = <<>>

\* C10: the order ledger has exactly one entry per successful payment, an
\* order once recorded is never modified or removed by a later tool call, and
\* get_order_status returns it unchanged.
C10_OrderLedgerImmutable ==
    /\ [](Cardinality(DOMAIN orders) = paySuccesses)
    /\ [](\A id \in DOMAIN orders :
            \A o \in executeTool(ShopState, Call("get_order_status", Null, FALSE, 0, id, Null, Null)) :
                o.result.order = << orders[id] >> /\ o.shop = ShopState)
    /\ [][ \A id \in DOMAIN orders : id \in DOMAIN orders' /\ orders'[id] = orders[id] ]_vars

\* C11: when the merchant rejects the payment request of submit_payment, the
\* call returns an error payload, records no order and leaves cart, checkout
\* session id and shipping address (all the shopping state) as they were.
C11_RejectedPaymentKeepsState ==
    \A t \in Tokens :
    \A o \in executeTool(ShopState, Call("submit_payment", Null, FALSE, 0, Null, t, Null)) :
        (o.requests # <<>> /\ (o.threw \/ o.result.success # "true")) =>
            /\ ~o.threw
            /\ o.result.error \in {MsgAcpPayment, MsgUcpPayment, MsgAcpDeclined, MsgUcpDeclined}
            /\ o.shop.orders = orders
            /\ o.shop.cart = cart
            /\ o.shop.checkoutSessionId = checkoutSessionId
            /\ o.shop.shippingAddress = shippingAddress

C11_Witness ==
    /\ MsgUcpPayment \in guardsHit
    /\ MsgAcpPayment \notin guardsHit
    /\ cart # <<>>
    /\ checkoutSessionId # Null
    /\ shippingAddress # Null
    /\ discovery # <<>>
    /\ orders = EmptyMap

\* C12: once the protocol field is bound to 'ucp' or 'acp', no later tool call
\* (in particular no later discover_merchant) changes it to the other value.
C12_ProtocolBoundOnce ==
    [][ protocol # Null => protocol' = protocol ]_vars

----------------------------------------------------------------------------
\* UcpClient.callApi and McpClient (SpecApi)

MaxApiCalls  == 2    \* callApi invocations per behaviour
MaxEnvelopes == 4    \* envelopes an McpClient posts per behaviour

\* The transports of a discovered service: absent, empty or an URL
McpEndpoints  == {Null, "", "https://shop.test/mcp"}
RestEndpoints == {Null, "", "https://shop.test/ucp/v1"}
Transports    == {"auto", "rest", "mcp"}

\* if (mcpEndpoint) / if (!endpoint): JavaScript truthiness of an endpoint
Truthy(endpoint) == endpoint # Null /\ endpoint # ""

\* What an MCP server may put into the error field of a 2xx body
BodyErrors ==
    [code : {-32601, -32000},
     message : {"Payment declined", "MCP HTTP error: 500 Internal Server Error"},
     data : {<<>>, << [method |-> "products/list", httpStatus |-> 500] >>}]

\* new McpError(code, message, data)
McpError(code, message, data) == [name |-> "McpError", code |-> code, message |-> message, data |-> data]

\* McpClient.call on a non-2xx response
HttpError(status) ==
    McpError(-32000, "MCP HTTP error: 500 Internal Server Error",
             << [method |-> "products/list", httpStatus |-> status] >>)

\* McpClient.call on a 2xx body with an error field
ProtocolError(e) == McpError(e.code, e.message, e.data)

NextId_reuse(id) == IF id = 0 THEN 1 ELSE id

\* const id = ++this.requestId
NextId(id) == id + 1

\* The envelope of call() and the envelope of notify()
CallEnvelope(id) == [jsonrpc |-> "2.0", method |-> "products/list", id |-> id]
NotifyEnvelope   == [jsonrpc |-> "2.0", method |-> "products/list"]

TriesMcp_never(transport) == transport = "mcp"

\* if (transport === 'mcp' || transport === 'auto')
TriesMcp(transport) == transport = "mcp" \/ transport = "auto"

FallsBackToRest_always(transport, rest) == Truthy(rest)

\* if (transport === 'auto' && this.getRestEndpoint(options.serviceName))
FallsBackToRest(transport, rest) == transport = "auto" /\ Truthy(rest)

\* callApi is over
ApiDone(result) ==
    /\ apiPc' = "done"
    /\ apiResult' = result

\* The REST part of callApi: the request is issued, or there is no endpoint
RestTransport(attempts) ==
    IF Truthy(services[1].rest)
    THEN /\ apiPc' = "rest"
         /\ apiAttempts' = Append(attempts, "rest")
         /\ apiResult' = "none"
    ELSE /\ ApiDone("no_rest_endpoint")
         /\ apiAttempts' = attempts

\* McpClient.call up to its await: the id is taken and the envelope posted
PostCall ==
    /\ requestId' = NextId(requestId)
    /\ envelopes' = Append(envelopes, CallEnvelope(NextId(requestId)))
    /\ pending' = pending \cup {NextId(requestId)}

\* callApi(path, options) up to its first await
CallApi ==
    /\ apiPc \in {"idle", "done"}
    /\ apiCalls < MaxApiCalls
    /\ apiCalls' = apiCalls + 1
    /\ \E transport \in Transports :
         /\ apiTransport' = transport
         /\ IF services = <<>>
            THEN \* getMcpEndpoint / getRestEndpoint: getDiscovery() throws
                 /\ ApiDone("no_discovery")
                 /\ apiAttempts' = <<>>
                 /\ apiMcp' = "none"
                 /\ apiRpcId' = 0
                 /\ UNCHANGED <<requestId, envelopes, pending>>
            ELSE IF TriesMcp(transport) /\ Truthy(services[1].mcp)
            THEN /\ Len(envelopes) < MaxEnvelopes
                 /\ PostCall
                 /\ apiPc' = "mcp"
                 /\ apiAttempts' = <<"mcp">>
                 /\ apiMcp' = "pending"
                 /\ apiRpcId' = NextId(requestId)
                 /\ apiResult' = "none"
            ELSE IF TriesMcp(transport) /\ transport = "mcp"
            THEN /\ ApiDone("no_mcp_endpoint")
                 /\ apiAttempts' = <<>>
                 /\ apiMcp' = "none"
                 /\ apiRpcId' = 0
                 /\ UNCHANGED <<requestId, envelopes, pending>>
            ELSE /\ RestTransport(<<>>)
                 /\ apiMcp' = "none"
                 /\ apiRpcId' = 0
                 /\ UNCHANGED <<requestId, envelopes, pending>>
    /\ UNCHANGED <<services, httpError, bodyError, loopVars, shopVars, obsVars, discVars, acpVars, otherVars>>

\* McpClient.call issued directly (callMcp), also while earlier calls are pending
McpCall ==
    /\ services # <<>>
    /\ Len(envelopes) < MaxEnvelopes
    /\ PostCall
    /\ UNCHANGED <<services, apiPc, apiTransport, apiAttempts, apiMcp, apiRpcId, apiResult,
                   apiCalls, httpError, bodyError, loopVars, shopVars, obsVars, discVars, acpVars, otherVars>>

\* McpClient.notify: an envelope without id
McpNotify ==
    /\ services # <<>>
    /\ Len(envelopes) < MaxEnvelopes
    /\ envelopes' = Append(envelopes, NotifyEnvelope)
    /\ UNCHANGED <<services, apiPc, apiTransport, apiAttempts, apiMcp, apiRpcId, apiResult,
                   apiCalls, requestId, pending, httpError, bodyError,
                   loopVars, shopVars, obsVars, discVars, acpVars, otherVars>>

\* callApi after its JSON-RPC attempt settled
AfterMcp(id, failed) ==
    IF id # apiRpcId
    THEN UNCHANGED <<apiPc, apiAttempts, apiMcp, apiRpcId, apiResult>>
    ELSE /\ apiRpcId' = 0
         /\ apiMcp' = IF failed THEN "failed" ELSE "ok"
         /\ IF ~failed
            THEN ApiDone("ok") /\ UNCHANGED apiAttempts
            ELSE IF FallsBackToRest(apiTransport, services[1].rest)
            THEN RestTransport(apiAttempts)
            ELSE ApiDone("mcp_error") /\ UNCHANGED apiAttempts

\* The response of a call() arrives: a result
McpResult ==
    /\ \E id \in pending :
         /\ pending' = pending \ {id}
         /\ AfterMcp(id, FALSE)
    /\ UNCHANGED <<services, apiTransport, apiCalls, requestId, envelopes, httpError,
                   bodyError, loopVars, shopVars, obsVars, discVars, acpVars, otherVars>>

\* The response of a call() is not 2xx, or the fetch itself fails
McpHttpError ==
    /\ \E id \in pending, thrownByCall \in BOOLEAN :
         /\ pending' = pending \ {id}
         /\ httpError' = IF thrownByCall THEN << HttpError(500) >> ELSE httpError
         /\ AfterMcp(id, TRUE)
    /\ UNCHANGED <<services, apiTransport, apiCalls, requestId, envelopes,
                   bodyError, loopVars, shopVars, obsVars, discVars, acpVars, otherVars>>

\* The response of a call() is 2xx and its body carries an error
McpBodyError ==
    /\ \E id \in pending, e \in BodyErrors :
         /\ pending' = pending \ {id}
         /\ bodyError' = << [sent |-> e, thrown |-> ProtocolError(e)] >>
         /\ AfterMcp(id, TRUE)
    /\ UNCHANGED <<services, apiTransport, apiCalls, requestId, envelopes,
                   httpError, loopVars, shopVars, obsVars, discVars, acpVars, otherVars>>

\* The REST response of callApi arrives: 2xx, or UcpApiError / a failed fetch
RestResponse ==
    /\ apiPc = "rest"
    /\ \E ok \in BOOLEAN : ApiDone(IF ok THEN "ok" ELSE "rest_error")
    /\ UNCHANGED <<services, apiTransport, apiAttempts, apiMcp, apiRpcId, apiCalls,
                   requestId, envelopes, pending, httpError, bodyError,
                   loopVars, shopVars, obsVars, discVars, acpVars, otherVars>>

\* A client that has or has not discovered a merchant
InitApi ==
    /\ services \in {<<>>} \cup { << [mcp |-> m, rest |-> r] >> : m \in McpEndpoints, r \in RestEndpoints }
    /\ apiPc = "idle"
    /\ apiTransport = "auto"
    /\ apiAttempts = <<>>
    /\ apiMcp = "none"
    /\ apiRpcId = 0
    /\ apiResult = "none"
    /\ apiCalls = 0
    /\ requestId = 0
    /\ envelopes = <<>>
    /\ pending = {}
    /\ httpError = <<>>
    /\ bodyError = <<>>

InitIdleAgent == acpClient = FALSE /\ InitShop /\ InitObs /\ InitLoopIdle

InitSpecApi ==
    /\ InitIdleAgent
    /\ InitApi
    /\ capInput = <<>>
    /\ capShape = "array"
    /\ InitDiscoverIdle
    /\ InitAcp
    /\ InitOthersIdle
NextApi == CallApi \/ McpCall \/ McpNotify \/ McpResult \/ McpHttpError \/ McpBodyError
              \/ RestResponse
SpecApi == InitSpecApi /\ [][NextApi]_vars

----------------------------------------------------------------------------
\* Properties of callApi and of the JSON-RPC client (checked under SpecApi)

McpKnown  == services # <<>> /\ Truthy(services[1].mcp)
RestKnown == services # <<>> /\ Truthy(services[1].rest)
Attempted(transport) == \E i \in 1..Len(apiAttempts) : apiAttempts[i] = transport

\* C13: with transport 'auto' callApi attempts JSON-RPC first exactly when a
\* JSON-RPC endpoint is known; a REST request is issued only when a REST
\* endpoint exists and no JSON-RPC endpoint is known or the JSON-RPC attempt
\* failed (and then it is issued); a failed JSON-RPC attempt without REST
\* endpoint ends the call with that error; each transport is attempted at
\* most once per call.
C13_AutoTransportFallback ==
    (apiPc # "idle" /\ apiTransport = "auto") =>
        /\ apiAttempts \in {<<>>, <<"mcp">>, <<"rest">>, <<"mcp", "rest">>}
        /\ Attempted("mcp") <=> McpKnown
        /\ Attempted("rest") => (RestKnown /\ (~McpKnown \/ apiMcp = "failed"))
        /\ (apiMcp = "failed" /\ RestKnown) => Attempted("rest")
        /\ (apiMcp = "failed" /\ ~RestKnown) => (apiPc = "done" /\ apiResult = "mcp_error")

C13_Witness ==
    /\ apiTransport = "auto"
    /\ apiPc = "done"
    /\ apiAttempts = <<"mcp", "rest">>
    /\ apiMcp = "failed"
    /\ apiResult = "ok"

\* C14: with transport 'mcp' callApi never issues a REST request, ends at
\* once without any request when no JSON-RPC endpoint is known and ends with
\* the JSON-RPC error when the JSON-RPC call fails; with transport 'rest' it
\* never issues a JSON-RPC request.
C14_ForcedTransport ==
    /\ (apiPc # "idle" /\ apiTransport = "mcp") =>
          /\ ~Attempted("rest")
          /\ Len(apiAttempts) <= 1
          /\ ~McpKnown => /\ apiPc = "done"
                          /\ apiAttempts = <<>>
                          /\ apiResult \in {"no_mcp_endpoint", "no_discovery"}
          /\ apiMcp = "failed" => (apiPc = "done" /\ apiResult = "mcp_error")
    /\ (apiPc # "idle" /\ apiTransport = "rest") =>
          /\ ~Attempted("mcp")
          /\ apiMcp = "none"

C14_Witness ==
    /\ apiTransport = "mcp"
    /\ RestKnown
    /\ apiMcp = "failed"
    /\ apiPc = "done"
    /\ apiAttempts = <<"mcp">>

\* The envelopes of call(), in the order posted
CallEnvelopes == SelectSeq(envelopes, LAMBDA e : "id" \in DOMAIN e)

C19_TransportErrorDistinct ==
    /\ (httpError # <<>> /\ bodyError # <<>>) => httpError[1] # bodyError[1].thrown
    /\ bodyError # <<>> =>
          /\ bodyError[1].thrown.code = bodyError[1].sent.code
          /\ bodyError[1].thrown.message = bodyError[1].sent.message
          /\ bodyError[1].thrown.data = bodyError[1].sent.data

----------------------------------------------------------------------------
\* UcpClient.discover and normalizeCapabilities (SpecDiscover)

MaxCaps == 2    \* capabilities a merchant profile declares

Absent == "undefined"     \* a field the JSON does not carry

\* x ?? d
Coalesce(x, d) == IF x = Absent THEN d ELSE x

ProfileVersion == "2026-01-11"      \* profile.ucp.version
CapNames == {"dev.ucp.shopping.checkout", "dev.ucp.shopping.order"}

\* One declared capability: an object with all its fields, an object that
\* carries name and version only, or (array shape only) a bare name
CapEntries ==
    [isString : {FALSE}, name : CapNames, version : {ProfileVersion},
     spec : {"https://ucp.dev/specs/shopping"},
     schema : {"https://ucp.dev/schemas/shopping.json"},
     extends : {"dev.ucp.shopping.checkout"}, config : {Absent}]
    \cup
    [isString : {FALSE}, name : CapNames, version : {ProfileVersion},
     spec : {Absent}, schema : {Absent}, extends : {Absent}, config : {Absent}]
    \cup
    [isString : {TRUE}, name : {"dev.ucp.shopping.checkout"}, version : {ProfileVersion},
     spec : {Absent}, schema : {Absent}, extends : {Absent}, config : {Absent}]

\* UcpCapability
Capability(name, version, spec, schema, extends, config) ==
    [name |-> name, version |-> version, spec |-> spec, schema |-> schema,
     extends |-> extends, config |-> config]

\* The array shape of the declared capabilities: the list itself
ArrayShape(caps) == caps

\* The entry of the keyed shape for one declared capability
KeyedEntry(c) == [version |-> c.version, spec |-> c.spec, schema |-> c.schema,
                  extends |-> c.extends, config |-> c.config]

\* The keyed shape: Object.entries of { name: [entries] }, keys in insertion order
RECURSIVE KeyedShape(_)
KeyedShape(caps) ==
    IF caps = <<>> THEN <<>>
    ELSE LET name == caps[1].name
             mine == SelectSeq(caps, LAMBDA c : c.name = name)
             rest == SelectSeq(caps, LAMBDA c : c.name # name)
         IN  << [name |-> name,
                 entries |-> [i \in 1..Len(mine) |-> KeyedEntry(mine[i])]] >>
             \o KeyedShape(rest)

\* normalizeCapabilities, Array.isArray(caps) branch
NormalizeArray(caps) ==
    [i \in 1..Len(caps) |->
        IF caps[i].isString
        THEN Capability(caps[i].name, ProfileVersion, "", "", Absent, Absent)
        ELSE Capability(caps[i].name, caps[i].version, caps[i].spec, caps[i].schema,
                        caps[i].extends, caps[i].config)]

\* normalizeCapabilities, object-keyed branch
RECURSIVE NormalizeKeyed(_)
NormalizeKeyed(keyed) ==
    IF keyed = <<>> THEN <<>>
    ELSE [i \in 1..Len(keyed[1].entries) |->
             Capability(keyed[1].name, keyed[1].entries[i].version,
                        Coalesce(keyed[1].entries[i].spec, ""),
                        Coalesce(keyed[1].entries[i].schema, ""),
                        keyed[1].entries[i].extends, keyed[1].entries[i].config)]
         \o NormalizeKeyed(Tail(keyed))

normalizeCapabilities(shape, caps) ==
    IF shape = "array" THEN NormalizeArray(ArrayShape(caps))
                       ELSE NormalizeKeyed(KeyedShape(caps))

\* const WELL_KNOWN_PATHS
WELL_KNOWN_PATHS == <<"/.well-known/ucp", "/.well-known/ucp.json">>

\* baseUrls of discover(domain)
BaseUrls(domain) ==
    IF domain = "http" THEN <<"http">> ELSE <<"https", "http">>

\* for (const base of baseUrls) for (const path of WELL_KNOWN_PATHS)
Probe(base, path) == [scheme |-> base, path |-> path]

\* What a probe may be answered with
\*   profile        2xx, a JSON object with the ucp root
\*   no_root        2xx, a JSON object without it
\*   null           2xx, the JSON value null
\*   not_json       2xx, a body that is no JSON
\*   http_error     not 2xx
\*   network_error  the fetch rejects (also on timeout)
ResponseKinds == {"profile", "no_root", "null", "not_json", "http_error", "network_error"}
JsonKinds     == {"profile", "no_root", "null"}

\* The probe after probes[Len(probes)] when the for loops go on; scheme and
\* path index of the next probe, or <<>> when the loops are over
NextProbe(domain, last, breakInner) ==
    LET bases == BaseUrls(domain)
        b == CHOOSE i \in 1..Len(bases) : bases[i] = last.scheme
        p == CHOOSE i \in 1..Len(WELL_KNOWN_PATHS) : WELL_KNOWN_PATHS[i] = last.path
    IN  IF ~breakInner /\ p < Len(WELL_KNOWN_PATHS)
        THEN << Probe(bases[b], WELL_KNOWN_PATHS[p + 1]) >>
        ELSE IF b < Len(bases)
        THEN << Probe(bases[b + 1], WELL_KNOWN_PATHS[1]) >>
        ELSE <<>>

\* discover(domain) up to its first await
DiscoverStart ==
    /\ discPc = "idle"
    /\ \E domain \in {"none", "https", "http"} :
         /\ discDomain' = domain
         /\ probes' = << Probe(BaseUrls(domain)[1], WELL_KNOWN_PATHS[1]) >>
    /\ discPc' = "probing"
    /\ UNCHANGED <<capInput, capShape, responses, discError, discCaps,
                   apiVars, loopVars, shopVars, obsVars, acpVars, otherVars>>

\* The answer to the outstanding probe and what discover() does with it
ProbeResponse ==
    /\ discPc = "probing"
    /\ \E kind \in ResponseKinds :
         LET last == probes[Len(probes)]
             \* profile = await response.json(); break -- also when it is null
             next == NextProbe(discDomain, last, kind = "null")
         IN  /\ responses' = Append(responses, kind)
             /\ IF kind = "profile"
                THEN /\ discPc' = "resolved"
                     /\ discCaps' = normalizeCapabilities(capShape, capInput)
                     /\ UNCHANGED <<probes, discError>>
                ELSE IF kind = "no_root"
                THEN /\ discPc' = "rejected"
                     /\ discError' = "invalid_profile"
                     /\ UNCHANGED <<probes, discCaps>>
                ELSE IF next # <<>>
                THEN /\ probes' = Append(probes, next[1])
                     /\ UNCHANGED <<discPc, discError, discCaps>>
                ELSE /\ discPc' = "rejected"
                     /\ discError' = "no_profile"
                     /\ UNCHANGED <<probes, discCaps>>
    /\ UNCHANGED <<capInput, capShape, discDomain, apiVars, loopVars, shopVars, obsVars, acpVars, otherVars>>

\* A merchant that declares some capabilities in one of the two shapes
InitSpecDiscover ==
    /\ InitIdleAgent
    /\ InitApiIdle
    /\ capInput \in SeqsUpTo(CapEntries, MaxCaps)
    /\ capShape \in {"array", "keyed"}
    /\ InitDiscoverIdle
    /\ InitAcp
    /\ InitOthersIdle

NextDiscover == DiscoverStart \/ ProbeResponse
SpecDiscover == InitSpecDiscover /\ [][NextDiscover]_vars

----------------------------------------------------------------------------
\* Properties of discover (checked under SpecDiscover)

\* The probes in the order the spec gives for a domain without scheme
ProbeOrder ==
    << Probe("https", "/.well-known/ucp"), Probe("https", "/.well-known/ucp.json"),
       Probe("http", "/.well-known/ucp"), Probe("http", "/.well-known/ucp.json") >>

\* C15: for a domain without scheme discover() probes https ucp, https
\* ucp.json, http ucp, http ucp.json in that order, one at a time, issues no
\* probe after the first 2xx JSON response, and throws the discovery error
\* exactly when no probe yields a profile.
C15_ProbeOrder ==
    discDomain = "none" =>
        /\ Len(probes) <= Len(ProbeOrder)
        /\ \A i \in 1..Len(probes) : probes[i] = ProbeOrder[i]
        /\ Len(responses) \in {Len(probes) - 1, Len(probes)}
        /\ \A i \in 1..Len(responses) : responses[i] \in JsonKinds => Len(probes) = i
        /\ discPc = "rejected" <=>
              /\ Len(responses) = Len(probes)
              /\ responses # <<>>
              /\ \A i \in 1..Len(responses) : responses[i] # "profile"
              /\ responses[Len(responses)] = "no_root" \/ Len(probes) = Len(ProbeOrder)

\* C16: when the domain carries an explicit scheme every probe uses it.
C16_ExplicitSchemeKept ==
    discDomain \in {"https", "http"} =>
        \A i \in 1..Len(probes) : probes[i].scheme = discDomain

\* How often record r occurs in sequence q
Count(q, r) == Cardinality({ i \in 1..Len(q) : q[i] = r })

\* C17: the array shape and the keyed shape of the same declared
\* capabilities normalize to the same flat records (name, version, spec,
\* schema, extends, config), each as often.
C17_ShapeInvariantNormalization ==
    \A i \in 1..Len(normalizeCapabilities("array", capInput)) :
        LET r == normalizeCapabilities("array", capInput)[i]
        IN  /\ Len(normalizeCapabilities("keyed", capInput)) = Len(normalizeCapabilities("array", capInput))
            /\ Count(normalizeCapabilities("keyed", capInput), r)
                  = Count(normalizeCapabilities("array", capInput), r)

----------------------------------------------------------------------------
\* The checkout sessions of MockAcpMerchant (SpecAcp)

\* The merchant handled request op on session id with response r
Handled(op, id, r) ==
    /\ sessions' = r.sessions
    /\ acpLast' = [op |-> op, id |-> id, code |-> r.code,
                   before |-> IF id \in DOMAIN sessions THEN sessions[id].status ELSE Null]
    /\ UNCHANGED <<apiVars, discVars, loopVars, shopVars, obsVars, otherVars>>

CreateSession ==
    /\ Cardinality(DOMAIN sessions) < MaxAcpSessions
    /\ \E auth, validItems, withShipping \in BOOLEAN :
         Handled("create", Null, AcpCreate(sessions, auth, validItems, withShipping))

GetSession ==
    \E auth \in BOOLEAN, id \in RequestIds :
        Handled("get", id, AcpGet(sessions, auth, id))

UpdateSession ==
    \E auth, withShipping \in BOOLEAN, id \in RequestIds :
        Handled("update", id, AcpUpdate(sessions, auth, id, withShipping))

CompleteSession ==
    \E auth \in BOOLEAN, id \in RequestIds, token \in PaymentTokens, handler \in PaymentHandlers :
        Handled("complete", id, AcpComplete(sessions, auth, id, token, handler))

CancelSession ==
    \E auth \in BOOLEAN, id \in RequestIds :
        Handled("cancel", id, AcpCancel(sessions, auth, id))

InitSpecAcp ==
    /\ InitIdleAgent
    /\ InitApiIdle
    /\ capInput = <<>>
    /\ capShape = "array"
    /\ InitDiscoverIdle
    /\ InitAcp
    /\ InitOthersIdle

NextAcp == CreateSession \/ GetSession \/ UpdateSession \/ CompleteSession \/ CancelSession
SpecAcp == InitSpecAcp /\ [][NextAcp]_vars

----------------------------------------------------------------------------
\* Properties of the checkout sessions (checked under SpecAcp)

\* C20: a complete request on a session whose status is
\* not_ready_for_payment is rejected, whatever token, handler and
\* authorization it carries, and leaves the session (its status) unchanged.
C20_CompleteNeedsReady ==
    \A id \in DOMAIN sessions :
        sessions[id].status = "not_ready_for_payment" =>
            \A auth \in BOOLEAN, token \in PaymentTokens, handler \in PaymentHandlers :
                /\ AcpComplete(sessions, auth, id, token, handler).code >= 400
                /\ AcpComplete(sessions, auth, id, token, handler).sessions[id].status
                      = "not_ready_for_payment"
                /\ AcpComplete(sessions, auth, id, token, handler).sessions = sessions

C20_Witness ==
    /\ acpLast.op = "complete"
    /\ acpLast.code = 400
    /\ acpLast.before = "not_ready_for_payment"
    /\ acpLast.id \in DOMAIN sessions
    /\ sessions[acpLast.id].status = "not_ready_for_payment"

\* C21: a complete request with the declined token on a ready_for_payment
\* session is rejected and leaves the session not_ready_for_payment, a status
\* that is not terminal: afterwards an update is accepted, a cancel is
\* accepted, and after an update that carries the shipping address a complete
\* with a good token is accepted.
C21_DeclineIsNotTerminal ==
    \A id \in DOMAIN sessions :
        sessions[id].status = "ready_for_payment" =>
            LET declined == AcpComplete(sessions, TRUE, id, "tok_mock_failure",
                                        "stripe_shared_payment_token")
                updated  == AcpUpdate(declined.sessions, TRUE, id, TRUE)
            IN  /\ declined.code = 402
                /\ declined.sessions[id].status = "not_ready_for_payment"
                /\ \A other \in DOMAIN sessions \ {id} :
                       declined.sessions[other] = sessions[other]
                /\ AcpUpdate(declined.sessions, TRUE, id, FALSE).code = 200
                /\ updated.code = 200
                /\ AcpComplete(updated.sessions, TRUE, id, "tok_mock_success",
                               "stripe_shared_payment_token").code = 200
                /\ AcpCancel(declined.sessions, TRUE, id).code = 200

C21_Witness ==
    /\ acpLast.op = "complete"
    /\ acpLast.code = 402
    /\ acpLast.before = "ready_for_payment"
    /\ acpLast.id \in DOMAIN sessions
    /\ sessions[acpLast.id].status = "not_ready_for_payment"

\* The statuses the state machine never leaves
TerminalStatuses == {"completed", "canceled"}

\* C22: on a session whose status is completed or canceled every update,
\* complete and cancel request is rejected (a 4xx answer) and the session is
\* left as it was.
C22_TerminalIsFinal ==
    \A id \in DOMAIN sessions :
        sessions[id].status \in TerminalStatuses =>
            \A auth, withShipping \in BOOLEAN, token \in PaymentTokens,
               handler \in PaymentHandlers :
                /\ AcpUpdate(sessions, auth, id, withShipping).code >= 400
                /\ AcpUpdate(sessions, auth, id, withShipping).sessions = sessions
                /\ AcpComplete(sessions, auth, id, token, handler).code >= 400
                /\ AcpComplete(sessions, auth, id, token, handler).sessions = sessions
                /\ AcpCancel(sessions, auth, id).code >= 400
                /\ AcpCancel(sessions, auth, id).sessions = sessions

----------------------------------------------------------------------------
\* The constructor's plugin registration and the tool catalog (SpecCtor)

MaxPlugins == 3    \* plugins given to one constructor
MaxSent    == 2    \* LLM calls observed per agent

\* SHOPPING_AGENT_TOOLS.map(t => t.name)
SHOPPING_AGENT_TOOLS ==
    << "discover_merchant", "list_capabilities", "browse_products", "search_products",
       "get_product", "add_to_cart", "view_cart", "remove_from_cart",
       "initiate_checkout", "submit_shipping", "submit_payment", "get_order_status" >>

\* The names a caller may give its plugins
GivenPluginNames == PluginNames \cup {"browse_products", "custom_tool"}

Range(q) == { q[i] : i \in DOMAIN q }

\* builtInNames.has(plugin.name)
ConflictsWithBuiltIn(name) == name \in Range(SHOPPING_AGENT_TOOLS)

DuplicatePlugin_off(registered, name) == FALSE

\* this.plugins.has(plugin.name)
DuplicatePlugin(registered, name) == name \in Range(registered)

\* for (const plugin of options.plugins ?? []): pluginTools after the plugins
\* given from position i on, or the throw of the first one that is refused
RECURSIVE RegisterPlugins(_, _, _)
RegisterPlugins(given, i, pluginTools) ==
    IF i > Len(given) THEN [threw |-> FALSE, pluginTools |-> pluginTools]
    ELSE IF ConflictsWithBuiltIn(given[i]) \/ DuplicatePlugin(pluginTools, given[i])
    THEN [threw |-> TRUE, pluginTools |-> pluginTools]
    ELSE RegisterPlugins(given, i + 1, Append(pluginTools, given[i]))

\* new ShoppingAgent(options)
Construct ==
    /\ ctorPc = "new"
    /\ LET registered == RegisterPlugins(pluginInput, 1, <<>>)
       IN  IF registered.threw
           THEN /\ ctorPc' = "threw"
                /\ allTools' = <<>>
           ELSE /\ ctorPc' = "constructed"
                /\ allTools' = SHOPPING_AGENT_TOOLS \o registered.pluginTools
    /\ UNCHANGED <<pluginInput, sentTools, sentCount,
                   apiVars, discVars, acpVars, loopVars, shopVars, obsVars, traceVars, netVars, spanVars, histVars, orderVars>>

\* llm.chat(messages, this.allTools) / adapter.chatStream(messages, this.allTools)
ChatWithCatalog ==
    /\ ctorPc = "constructed"
    /\ sentCount < MaxSent
    /\ sentTools' = allTools
    /\ sentCount' = sentCount + 1
    /\ UNCHANGED <<pluginInput, ctorPc, allTools,
                   apiVars, discVars, acpVars, loopVars, shopVars, obsVars, traceVars, netVars, spanVars, histVars, orderVars>>

InitCtor ==
    /\ pluginInput \in UNION { [1..k -> GivenPluginNames] : k \in 0..MaxPlugins }
    /\ ctorPc = "new"
    /\ allTools = <<>>
    /\ sentTools = <<>>
    /\ sentCount = 0

InitSpecCtor ==
    /\ InitIdleAgent
    /\ InitApiIdle
    /\ capInput = <<>>
    /\ capShape = "array"
    /\ InitDiscoverIdle
    /\ InitAcp
    /\ InitCtor
    /\ InitTrace
    /\ InitNet
    /\ InitSpans
    /\ InitHistory
    /\ InitOrderLog

NextCtor == Construct \/ ChatWithCatalog
SpecCtor == InitSpecCtor /\ [][NextCtor]_vars

----------------------------------------------------------------------------
\* Properties of the constructor (checked under SpecCtor)

\* Some plugin is named like a built-in tool or like an earlier plugin
NameCollision(given) ==
    \E i \in DOMAIN given :
        \/ given[i] \in Range(SHOPPING_AGENT_TOOLS)
        \/ \E j \in 1..(i - 1) : given[j] = given[i]

PairwiseDistinct(q) == \A i, j \in DOMAIN q : i # j => q[i] # q[j]

\* C23: the constructor throws exactly when a plugin is named like a built-in
\* tool or like an earlier plugin; otherwise the catalog, and what every LLM
\* call passes to the adapter, is the built-in tools followed by the plugins
\* in the order given, with pairwise distinct names.
C23_PluginRegistration ==
    ctorPc # "new" =>
        /\ (ctorPc = "threw") <=> NameCollision(pluginInput)
        /\ ctorPc = "constructed" =>
              /\ allTools = SHOPPING_AGENT_TOOLS \o pluginInput
              /\ PairwiseDistinct(allTools)
              /\ sentCount > 0 => sentTools = SHOPPING_AGENT_TOOLS \o pluginInput

C23_Witness ==
    /\ ctorPc = "constructed"
    /\ Len(pluginInput) = 3
    /\ sentCount = 2
    /\ sentTools = allTools

----------------------------------------------------------------------------
\* Properties of the event stream and of the two entry points (checked under Spec)

TerminalEvents == {"done", "error"}

\* C24: runStream() never throws to its consumer; a terminal event (done or
\* error) is the last event of the stream and is there once the generator has
\* returned; an error event is the adapter's failure, and a done event carries
\* the result of a normal end or of the exhausted iterations.
C24_OneTerminalEvent ==
    mode = "runStream" =>
        /\ pc # "rejected"
        /\ \A i \in 1..Len(events) :
              events[i].type \in TerminalEvents => i = Len(events) /\ pc = "returned"
        /\ pc = "returned" =>
              /\ Len(events) > 0
              /\ events[Len(events)].type \in TerminalEvents
              /\ events[Len(events)].type = "error" => events[Len(events)].text = MsgAdapter
              /\ events[Len(events)].type = "done" => events[Len(events)].result = agentResult

\* The structure of the stream alone, whatever made it end in error
StreamEndsOnce ==
    mode = "runStream" =>
        /\ pc # "rejected"
        /\ \A i \in 1..Len(events) :
              events[i].type \in TerminalEvents => i = Len(events) /\ pc = "returned"
        /\ pc = "returned" =>
              /\ Len(events) > 0
              /\ events[Len(events)].type \in TerminalEvents

\* C25: run() and runStream() take the same branch on every buffered adapter
\* response: both end the run on it or both go on to execute its tool calls
\* (the rest of an iteration, AfterResponse, is one definition for both).
C25_SameStateMachine ==
    lastResponse # <<>> =>
        ( runTerminates(lastResponse[1].finishReason, lastResponse[1].toolCalls)
          <=> streamTerminates(lastResponse[1].toolCalls) )

----------------------------------------------------------------------------
\* this.steps over successive runs of one agent (SpecRuns)

MaxRuns     == 2    \* calls of run() on one agent
MaxRunSteps == 2    \* steps recorded within one run

StepTypes == {"thinking", "tool_call", "tool_result"}

\* run(task): the prologue sets this.iteration = 0 and leaves this.steps alone
RunBegins ==
    /\ pc \in {"idle", "returned"}
    /\ runs < MaxRuns
    /\ runs' = runs + 1
    /\ runStart' = Len(steps)
    /\ iteration' = 0
    /\ mode' = "run"
    /\ pc' = "loop"
    /\ UNCHANGED <<maxIterations, supportsStreaming, messages, steps, events, turnCalls,
                   started, inflight, agentResult, llmCalls, lastResponse, requested,
                   allToolTurns, execLog, shopVars, obsVars, apiVars, discVars, acpVars,
                   ctorVars, netVars, spanVars, histVars, orderVars>>

\* this.iteration++
IterationBegins ==
    /\ pc = "loop"
    /\ LoopContinues(iteration, maxIterations)
    /\ iteration' = iteration + 1
    /\ UNCHANGED <<maxIterations, supportsStreaming, mode, pc, messages, steps, events,
                   turnCalls, started, inflight, agentResult, llmCalls, lastResponse,
                   requested, allToolTurns, execLog, shopVars, obsVars, clientVars>>

\* recordStep(partial): this.steps.push(step)
RecordStep ==
    /\ pc = "loop"
    /\ iteration >= 1
    /\ Len(steps) - runStart < MaxRunSteps
    /\ \E type \in StepTypes :
         steps' = Append(steps, Step(iteration, type, "", "", NoResult))
    /\ UNCHANGED <<maxIterations, supportsStreaming, mode, pc, iteration, messages, events,
                   turnCalls, started, inflight, agentResult, llmCalls, lastResponse,
                   requested, allToolTurns, execLog, shopVars, obsVars, clientVars>>

\* return this.buildResult(success, answer): steps: [...this.steps]
RunReturns ==
    /\ pc = "loop"
    /\ \E success \in BOOLEAN :
         agentResult' = << buildResult(success, "", steps, iteration) >>
    /\ pc' = "returned"
    /\ UNCHANGED <<maxIterations, supportsStreaming, mode, iteration, messages, steps, events,
                   turnCalls, started, inflight, llmCalls, lastResponse,
                   requested, allToolTurns, execLog, shopVars, obsVars, clientVars>>

InitSpecRuns ==
    /\ acpClient = FALSE /\ InitShop /\ InitObs
    /\ InitLoop
    /\ InitApiIdle
    /\ capInput = <<>>
    /\ capShape = "array"
    /\ InitDiscoverIdle
    /\ InitAcp
    /\ InitOthersIdle

NextRuns == RunBegins \/ IterationBegins \/ RecordStep \/ RunReturns
SpecRuns == InitSpecRuns /\ [][NextRuns]_vars

\* C26: the steps of the AgentResult a run() returns are exactly the steps
\* recorded during that run, in recording order.
C26_TraceOfOneRun ==
    (pc = "returned" /\ agentResult # <<>>) =>
        agentResult[1].steps = SubSeq(steps, runStart + 1, Len(steps))

\* this.steps only ever grows at its end
TraceAppendOnly ==
    [][ Len(steps') >= Len(steps) /\ SubSeq(steps', 1, Len(steps)) = steps ]_vars

----------------------------------------------------------------------------
\* Outbound requests and their timeouts (SpecNet)

MaxRequests == 2    \* requests followed per behaviour

\* The places where a tool execution awaits a fetch
RequestKinds == {"discovery_probe", "rest_call", "mcp_call", "acp_session_call",
                 "acp_health", "acp_products", "acp_catalog"}

HasSignal_all(kind) == TRUE

\* The fetch is given signal: controller.signal, with setTimeout(abort, timeoutMs):
\* UcpClient.fetchWithTimeout, McpClient.fetchWithTimeout and AcpClient.request
\* do so; the fetchFn calls of toolDiscoverMerchant and fetchMerchantApi do not
HasSignal(kind) ==
    kind \in {"discovery_probe", "rest_call", "mcp_call", "acp_session_call"}

\* await fetchFn(url, ...)
IssueRequest ==
    /\ netPc \in {"idle", "returned"}
    /\ Len(netLog) < MaxRequests
    /\ \E kind \in RequestKinds : netKind' = kind
    /\ netPc' = "waiting"
    /\ UNCHANGED <<netLog, apiVars, discVars, acpVars, loopVars, shopVars, obsVars,
                   ctorVars, traceVars, spanVars, histVars, orderVars>>

Settled(how) ==
    /\ netPc = "waiting"
    /\ netPc' = "returned"
    /\ netLog' = Append(netLog, [kind |-> netKind, how |-> how])
    /\ UNCHANGED <<netKind, apiVars, discVars, acpVars, loopVars, shopVars, obsVars,
                   ctorVars, traceVars, spanVars, histVars, orderVars>>

\* The merchant answers (or the connection fails): the fetch settles
MerchantAnswers == \E how \in {"response", "network_error"} : Settled(how)

\* setTimeout(() => controller.abort(), this.timeoutMs) fires: the fetch rejects
TimerAborts == HasSignal(netKind) /\ Settled("timeout")

InitSpecNet ==
    /\ InitIdleAgent
    /\ InitApiIdle
    /\ capInput = <<>>
    /\ capShape = "array"
    /\ InitDiscoverIdle
    /\ InitAcp
    /\ InitOthersIdle

NextNet == IssueRequest \/ MerchantAnswers \/ TimerAborts

\* A timer that was set fires; nothing obliges the merchant to answer
SpecNet == InitSpecNet /\ [][NextNet]_vars /\ WF_vars(TimerAborts)

\* C27: every outbound request is bounded by a timeout, so that a tool
\* execution waiting for the network eventually returns, also when the
\* merchant never answers.
C27_RequestsTimeOut == (netPc = "waiting") ~> (netPc = "returned")

----------------------------------------------------------------------------
\* The tracer spans of a run (SpecSpans)

\* The tools the traced run calls
TracedTools == {"discover_merchant", "browse_products"}

\* tracer.startSpan(name, attributes): a tool span carries the tool's name
StartSpan(q, name, tool) == Append(q, [name |-> name, tool |-> tool, ended |-> FALSE])

\* span.end() on the span started last under that name
EndSpan(q, name) ==
    LET i == CHOOSE k \in DOMAIN q :
                 /\ q[k].name = name
                 /\ \A j \in DOMAIN q : q[j].name = name => j <= k
    IN  [q EXCEPT ![i].ended = TRUE]

EndsRunSpanAtCap_off(q) == q

\* The run span is ended on the exit at the iteration cap too
EndsRunSpanAtCap(q) == EndSpan(q, "agent.run")

NotSpans == <<apiVars, discVars, acpVars, loopVars, shopVars, obsVars,
              ctorVars, traceVars, netVars, histVars, orderVars>>

\* run(task) with a tracer: the span wrapping the whole run
TracedRunBegins ==
    /\ spanPc = "idle"
    /\ spans' = StartSpan(spans, "agent.run", Null)
    /\ spanIter' = 0
    /\ spanPc' = "loop"
    /\ UNCHANGED <<spanCalls, spanLeft, NotSpans>>

\* The span wrapping one LLM call is started
LlmSpanBegins ==
    /\ spanPc = "loop"
    /\ LoopContinues(spanIter, maxIterations)
    /\ spanIter' = spanIter + 1
    /\ spans' = StartSpan(spans, "agent.llm_call", Null)
    /\ spanCalls' = [spanCalls EXCEPT !.llm = @ + 1]
    /\ spanPc' = "llm"
    /\ UNCHANGED <<spanLeft, NotSpans>>

\* The adapter answered with n tool calls: the LLM span is ended and, when the
\* run ends on this response, the run span
LlmSpanEnds ==
    /\ spanPc = "llm"
    /\ \E n \in 0..MaxCalls :
         /\ spanLeft' = n
         /\ IF n = 0
            THEN /\ spans' = EndSpan(EndSpan(spans, "agent.llm_call"), "agent.run")
                 /\ spanPc' = "returned"
            ELSE /\ spans' = EndSpan(spans, "agent.llm_call")
                 /\ spanPc' = "tools"
    /\ UNCHANGED <<spanIter, spanCalls, NotSpans>>

\* The span wrapping one tool call is started
ToolSpanBegins ==
    /\ spanPc = "tools"
    /\ spanLeft > 0
    /\ \E tool \in TracedTools : spans' = StartSpan(spans, "agent.tool_call", tool)
    /\ spanCalls' = [spanCalls EXCEPT !.tool = @ + 1]
    /\ spanPc' = "tool"
    /\ UNCHANGED <<spanIter, spanLeft, NotSpans>>

\* The tool execution settled, with a result or an error payload
ToolSpanEnds ==
    /\ spanPc = "tool"
    /\ spans' = EndSpan(spans, "agent.tool_call")
    /\ spanLeft' = spanLeft - 1
    /\ spanPc' = IF spanLeft = 1 THEN "loop" ELSE "tools"
    /\ UNCHANGED <<spanIter, spanCalls, NotSpans>>

\* Max iterations reached
TracedRunExhausted ==
    /\ spanPc = "loop"
    /\ ~LoopContinues(spanIter, maxIterations)
    /\ spans' = EndsRunSpanAtCap(spans)
    /\ spanPc' = "returned"
    /\ UNCHANGED <<spanIter, spanCalls, spanLeft, NotSpans>>

InitSpecSpans == InitSpecRuns

NextSpans == TracedRunBegins \/ LlmSpanBegins \/ LlmSpanEnds \/ ToolSpanBegins
                \/ ToolSpanEnds \/ TracedRunExhausted
SpecSpans == InitSpecSpans /\ [][NextSpans]_vars

\* The spans started under a name
Named(q, name) == { i \in DOMAIN q : q[i].name = name }

----------------------------------------------------------------------------
\* Pairing of the tool steps and of the tool messages (checked under Spec)

\* Steps i and i + 1 are the tool_call and the tool_result of one execution
PairAt(i) ==
    /\ i + 1 <= Len(steps)
    /\ steps[i].type = "tool_call"
    /\ steps[i + 1].type = "tool_result"
    /\ steps[i + 1].toolName = steps[i].toolName
    /\ steps[i + 1].iteration = steps[i].iteration

\* The tool messages that follow message i directly
ToolMessagesAfter(i) ==
    { k \in 1..(Len(messages) - i) :
        \A j \in 1..k : messages[i + j].role = "tool" }

\* C29: the tool steps form adjacent (tool_call, tool_result) pairs with equal
\* tool name and iteration, the only unpaired tool_call being the last step
\* while its execution is under way; each assistant message with n tool calls
\* is followed by tool messages in call order, each tagged with the name of
\* its call, and by exactly n of them whenever the next LLM call can be made.
C29_StepsAndMessagesPaired ==
    /\ \A i \in 1..Len(steps) :
          /\ steps[i].type = "tool_result" => i > 1 /\ PairAt(i - 1)
          /\ steps[i].type = "tool_call" =>
                \/ PairAt(i)
                \/ i = Len(steps) /\ pc = "tools" /\ inflight # {}
    /\ \A i \in 1..Len(messages) :
          messages[i].role = "assistant" =>
              LET n == Len(messages[i].toolCalls)
                  k == Cardinality(ToolMessagesAfter(i))
              IN  /\ k <= n
                  /\ \A j \in 1..k : messages[i + j].toolCallId = messages[i].toolCalls[j].name
                  /\ k < n => i + k = Len(messages)
                  /\ pc = "loop" => k = n
    /\ \A i \in 1..Len(messages) :
          messages[i].role = "tool" =>
              \E a \in 1..(i - 1) : /\ messages[a].role = "assistant"
                                    /\ i - a \in ToolMessagesAfter(a)

C29_Witness ==
    /\ pc = "loop"
    /\ iteration = 2
    /\ Len(messages) = 6
    /\ messages[2].role = "assistant" /\ Len(messages[2].toolCalls) = 2
    /\ messages[5].role = "assistant" /\ Len(messages[5].toolCalls) = 1
    /\ messages[3].toolCallId = messages[4].toolCallId
    /\ PairAt(Len(steps) - 1)

----------------------------------------------------------------------------
\* The message history and the adapters' id resolution (SpecAdapter)

\* The tools the LLM calls
HistoryTools == {"add_to_cart", "view_cart"}

\* ToolCall: the id is the LLM's, the name the tool's
CallId(n) == "call_" \o ToString(n)

NotHistory == <<apiVars, discVars, acpVars, loopVars, shopVars, obsVars,
                ctorVars, traceVars, netVars, spanVars, orderVars>>

\* messages.push({ role: 'assistant', content, toolCalls })
AssistantTurn ==
    /\ histPc = "llm"
    /\ idCount + MaxCalls <= MaxIter * MaxCalls
    /\ \E names \in UNION { [1..k -> HistoryTools] : k \in 1..MaxCalls } :
         LET calls == [j \in 1..Len(names) |-> [id |-> CallId(idCount + j), name |-> names[j]]]
         IN  /\ history' = Append(history, [role |-> "assistant", toolCalls |-> calls,
                                            toolCallId |-> Null, answers |-> Null])
             /\ histLeft' = calls
             /\ idCount' = idCount + Len(names)
    /\ histPc' = "tools"
    /\ UNCHANGED <<resolved, NotHistory>>

\* messages.push({ role: 'tool', content: JSON.stringify(result), toolCallId: toolCall.name });
\* answers remembers the call whose result the message carries
ToolAnswer ==
    /\ histPc = "tools"
    /\ history' = Append(history, [role |-> "tool", toolCalls |-> <<>>,
                                   toolCallId |-> Head(histLeft).name,
                                   answers |-> Head(histLeft).id])
    /\ histLeft' = Tail(histLeft)
    /\ histPc' = IF Len(histLeft) = 1 THEN "llm" ELSE "tools"
    /\ UNCHANGED <<idCount, resolved, NotHistory>>

\* toolIdQueues.get(tc.name).push(tc.id), for the calls of one assistant message
RECURSIVE Enqueue(_, _, _)
Enqueue(queues, calls, j) ==
    IF j > Len(calls) THEN queues
    ELSE LET name == calls[j].name
             old  == IF name \in DOMAIN queues THEN queues[name] ELSE <<>>
         IN  Enqueue(MapSet(queues, name, Append(old, calls[j].id)), calls, j + 1)

TakeId_last(queue) == [id |-> queue[Len(queue)], rest |-> SubSeq(queue, 1, Len(queue) - 1)]

\* toolUseId = queue.shift()
TakeId(queue) == [id |-> Head(queue), rest |-> Tail(queue)]

\* toAnthropicMessages / toOpenAIMessages: the tool_use_id (tool_call_id) given
\* to each tool message, in message order
RECURSIVE ResolveIds(_, _, _, _)
ResolveIds(msgs, i, queues, out) ==
    IF i > Len(msgs) THEN out
    ELSE IF msgs[i].role = "assistant"
    THEN ResolveIds(msgs, i + 1, Enqueue(queues, msgs[i].toolCalls, 1), out)
    ELSE IF msgs[i].role = "tool"
    THEN LET key == msgs[i].toolCallId
         IN  IF key \in DOMAIN queues /\ Len(queues[key]) > 0
             THEN ResolveIds(msgs, i + 1, MapSet(queues, key, TakeId(queues[key]).rest),
                             Append(out, TakeId(queues[key]).id))
             ELSE ResolveIds(msgs, i + 1, queues, Append(out, key))
    ELSE ResolveIds(msgs, i + 1, queues, out)

\* llm.chat(messages, tools): the adapter converts the history
AdapterChat ==
    /\ histPc = "llm"
    /\ resolved' = ResolveIds(history, 1, EmptyMap, <<>>)
    /\ UNCHANGED <<history, histPc, histLeft, idCount, NotHistory>>

InitSpecAdapter == InitSpecNet

NextAdapter == AssistantTurn \/ ToolAnswer \/ AdapterChat
SpecAdapter == InitSpecAdapter /\ [][NextAdapter]_vars

\* The ids of the calls the tool messages of a history answer, in message order
RECURSIVE AnsweredIds(_, _)
AnsweredIds(msgs, i) ==
    IF i > Len(msgs) THEN <<>>
    ELSE IF msgs[i].role = "tool" THEN << msgs[i].answers >> \o AnsweredIds(msgs, i + 1)
    ELSE AnsweredIds(msgs, i + 1)

\* C30: on every history the loop produces, the adapter's name-to-id FIFO
\* resolution gives each tool message the id of the call whose result it
\* carries, also when a tool name recurs within a turn or across turns.
C30_FifoResolvesIds ==
    /\ ResolveIds(history, 1, EmptyMap, <<>>) = AnsweredIds(history, 1)
    /\ histPc = "llm" /\ resolved # <<>> =>
          resolved = SubSeq(AnsweredIds(history, 1), 1, Len(resolved))

C30_Witness ==
    /\ histPc = "llm"
    /\ Len(resolved) = 4
    /\ resolved = AnsweredIds(history, 1)
    /\ \A i \in 1..Len(history) :
          history[i].role = "tool" => history[i].toolCallId = "add_to_cart"

----------------------------------------------------------------------------
\* Properties of the protocol binding and routing (checked under SpecTools)

\* Some probe of the session-checkout endpoint answered 2xx
ProbeAnswered(health, products) == health # "fail" \/ products # "fail"

AcpRequests == {"acp.health", "acp.products", "acp.fetch", "acp.createCheckout",
                "acp.updateCheckout", "acp.completeCheckout"}

Sent(o) == { o.requests[i] : i \in DOMAIN o.requests }

\* C31: discover_merchant binds 'ucp' without probing the session-checkout
\* endpoint when profile discovery succeeds; it binds 'acp' only when
\* discovery failed, the endpoint is configured and a probe answered 2xx; in
\* every other case it returns an error payload and leaves the protocol as
\* it was.
C31_DiscoverBindsProtocol ==
    \A ucp \in DiscoveryAnswers, health, products \in ProbeAnswers :
        LET o == discoverMerchant(ShopState, ucp, health, products)
        IN  /\ ~o.threw
            /\ ucp # "fail" =>
                  /\ o.shop.protocol = "ucp"
                  /\ o.result.error = ""
                  /\ Sent(o) \cap AcpRequests = {}
            /\ (o.shop.protocol = "acp" /\ (protocol # "acp" \/ o.result.error = "")) =>
                  /\ ucp = "fail"
                  /\ acpClient
                  /\ ProbeAnswered(health, products)
            /\ (ucp = "fail" /\ ~(acpClient /\ ProbeAnswered(health, products))) =>
                  /\ o.result.error # ""
                  /\ o.shop.protocol = protocol

\* The requests UcpClient.callApi sends
CallApiRequests == {"ucp.callApi", "ucp.checkout", "ucp.checkoutComplete"}

\* The requests the session-checkout client sends
AcpClientRequests == {"acp.createCheckout", "acp.updateCheckout", "acp.completeCheckout"}

\* The session-checkout request that belongs to a checkout tool
AcpRequestOf(name) ==
    CASE name = "initiate_checkout" -> {"acp.createCheckout"}
      [] name = "submit_shipping"   -> {"acp.updateCheckout"}
      [] name = "submit_payment"    -> {"acp.completeCheckout"}
      [] OTHER -> {}

\* C32: while 'acp' is bound the checkout tools send only their
\* session-checkout request and no tool calls UcpClient.callApi; while 'ucp'
\* is bound no tool calls a method of the session-checkout client.
C32_RoutingFollowsProtocol ==
    \A c \in ToolCalls :
        \A o \in executeTool(ShopState, c) :
            /\ protocol = "acp" =>
                  /\ Sent(o) \cap CallApiRequests = {}
                  /\ c.name \in {"initiate_checkout", "submit_shipping", "submit_payment"} =>
                        Sent(o) \subseteq AcpRequestOf(c.name)
            /\ protocol = "ucp" => Sent(o) \cap AcpClientRequests = {}

C32_Witness ==
    /\ protocol = "acp"
    /\ discovery # <<>>
    /\ SessionId(2) = checkoutSessionId
    /\ ("acp_" \o SessionId(1)) \in DOMAIN orders

----------------------------------------------------------------------------
\* The transitions of the checkout session status (checked under SpecAcp)

\* The table's transitions of an existing session: request, status before,
\* status after, status code of the answer
StatusTransitions ==
    { <<"update",   "not_ready_for_payment", "ready_for_payment",     200>>,
      <<"complete", "ready_for_payment",     "completed",             200>>,
      <<"complete", "ready_for_payment",     "not_ready_for_payment", 402>>,
      <<"cancel",   "not_ready_for_payment", "canceled",              200>>,
      <<"cancel",   "ready_for_payment",     "canceled",              200>> }

\* C33: every status change of a checkout session is a transition of the
\* table: a session appears by create only, not_ready_for_payment without a
\* shipping address and ready_for_payment with one; update with a shipping
\* address takes not_ready_for_payment to ready_for_payment; complete takes
\* ready_for_payment to completed or, declined, to not_ready_for_payment;
\* cancel takes a non-terminal session to canceled; nothing else changes a
\* status and no session disappears.
C33_StatusChangesFollowTable ==
    [][ /\ DOMAIN sessions \subseteq DOMAIN sessions'
        /\ \A id \in DOMAIN sessions' :
             IF id \notin DOMAIN sessions
             THEN /\ acpLast'.op = "create"
                  /\ acpLast'.code = 201
                  /\ sessions'[id].status = IF sessions'[id].shipping
                                            THEN "ready_for_payment"
                                            ELSE "not_ready_for_payment"
             ELSE sessions'[id].status # sessions[id].status =>
                  /\ acpLast'.id = id
                  /\ <<acpLast'.op, sessions[id].status, sessions'[id].status,
                       acpLast'.code>> \in StatusTransitions
                  /\ acpLast'.op = "update" => sessions'[id].shipping
      ]_vars

C33_Witness ==
    /\ acpLast.op = "cancel"
    /\ acpLast.code = 200
    /\ acpLast.before = "ready_for_payment"
    /\ acpLast.id \in DOMAIN sessions
    /\ sessions[acpLast.id].status = "canceled"
    /\ \E other \in DOMAIN sessions : sessions[other].status = "completed"

----------------------------------------------------------------------------
\* Properties of the catalog tools (checked under SpecTools)

\* C34: whenever the merchant API call of browse_products fails, or both the
\* search call and the fallback call of search_products fail, the tool result
\* fed back to the LLM carries an error field.
C34_CatalogFailureIsReported ==
    \A r1 \in fetchMerchantApi(ShopState), r2 \in fetchMerchantApi(ShopState) :
        /\ ~r1.ok => WrapResult(browseProducts(ShopState, r1)).error # ""
        /\ (~r1.ok /\ ~r2.ok) => WrapResult(searchProducts(ShopState, r1, r2)).error # ""

----------------------------------------------------------------------------
\* The text events of the buffered fallback of runStream() (checked under Spec)

\* The events a step adds
NewEvents == SubSeq(events', Len(events) + 1, Len(events'))

\* The text of the response an iteration begins with: the content of the
\* thinking step it records, empty when it records none
ResponseText == IF steps' # steps THEN steps'[Len(steps')].content ELSE ""

\* C35: in runStream() with an adapter without chatStream, an iteration whose
\* response text is non-empty emits exactly one text_delta event, with the
\* whole text, before every other event of the iteration (so before its
\* tool_call events), and an iteration with empty text emits none.
C35_OneBufferedTextDelta ==
    [][ (mode = "runStream" /\ ~supportsStreaming) =>
          LET deltas == { i \in 1..Len(NewEvents) : NewEvents[i].type = "text_delta" }
          IN  /\ Len(events') >= Len(events)
              /\ SubSeq(events', 1, Len(events)) = events
              /\ IF iteration' = iteration + 1 /\ ResponseText # ""
                 THEN /\ deltas = {1}
                      /\ NewEvents[1].text = ResponseText
                      /\ NewEvents[1].iteration = iteration'
                      /\ \A i \in 1..Len(events) : events[i].iteration < iteration'
                 ELSE deltas = {}
      ]_vars

C35_Witness ==
    /\ mode = "runStream"
    /\ ~supportsStreaming
    /\ iteration = 2
    /\ \E i, j \in 1..Len(events) :
         /\ i < j
         /\ events[i].type = "text_delta" /\ events[i].iteration = 1
         /\ events[j].type = "tool_call" /\ events[j].iteration = 1
    /\ \E j \in 1..Len(events) : events[j].type = "tool_call" /\ events[j].iteration = 2
    /\ \A i \in 1..Len(events) : events[i].type = "text_delta" => events[i].iteration = 1

----------------------------------------------------------------------------
\* Properties of the cart and the checkout state (checked under SpecTools)

\* C36: every line of the cart has a positive quantity, whatever quantities
\* the add_to_cart calls requested.
C36_CartQuantitiesPositive ==
    \A i \in 1..Len(cart) : cart[i].quantity >= 1

\* The requests that ask the merchant to take the payment
PaymentRequests == {"acp.completeCheckout", "ucp.checkoutComplete"}

\* C37: submit_payment sends a payment request for the current checkout
\* session only when a submit_shipping call made while that session was
\* current returned success: an address accepted for an earlier session, or a
\* submit_shipping that returned an error, does not enable the payment.
C37_PaymentAfterShippingOfSession ==
    \A t \in Tokens :
        \A o \in executeTool(ShopState, Call("submit_payment", Null, FALSE, 0, Null, t, Null)) :
            Sent(o) \cap PaymentRequests # {} =>
                /\ checkoutSessionId # Null
                /\ shippedFor = checkoutSessionId

\* submit_payment with a token the merchant accepts
ValidPayment == Call("submit_payment", Null, FALSE, 0, Null, "tok_mock_success", Null)

\* The last tool call was a submit_payment the merchant declined (402)
JustDeclined == guardsHit \cap {MsgAcpDeclined, MsgUcpDeclined} # {}

\* C38: after a declined payment, submit_payment with a valid token, with no
\* other tool call in between, is sent to the merchant and, answered,
\* completes the purchase and records the order, under either protocol.
C38_RetryAfterDecline ==
    JustDeclined =>
        /\ PaymentGuard(ShopState) = ""
        /\ paymentAnswered(ShopState, ValidPayment) # {}
        /\ \A o \in paymentAnswered(ShopState, ValidPayment) :
              /\ PaymentSucceeded(ValidPayment, o)
              /\ o.result.orderId \in DOMAIN o.shop.orders

\* C39: a stored shipping address implies a stored checkout session id: the
\* address is set only while a session exists, and the session id is never
\* cleared or lost without the address being cleared too.
C39_AddressImpliesSession ==
    shippingAddress # Null => checkoutSessionId # Null

----------------------------------------------------------------------------
\* The cart and checkout tools with the cart of each session observed
\* (SpecOrders)

\* The tool calls that change the cart, bind a merchant or drive a checkout
OrderCalls ==
    { c \in ToolCalls :
        \/ c.name = "add_to_cart" /\ ~c.hasQuantity
        \/ c.name \in {"remove_from_cart", "discover_merchant", "initiate_checkout",
                       "submit_shipping", "submit_payment"} }

NotOrders == <<loopVars, apiVars, discVars, acpVars,
               ctorVars, traceVars, netVars, spanVars, histVars>>

\* One dispatched tool call, as in SpecTools, with the cart noted when
\* initiate_checkout opens a session
OrderToolStep(c) ==
    /\ WithinBounds(c)
    /\ \E o \in executeTool(ShopState, c) :
         /\ ApplyOutcome(c, o)
         /\ checkoutCart' =
               IF PaymentSucceeded(c, o) THEN <<>>
               ELSE IF c.name = "initiate_checkout" /\ ~o.threw /\ o.result.error = ""
               THEN cart
               ELSE checkoutCart
    /\ UNCHANGED NotOrders

EditCart     == \E c \in OrderCalls : c.name \in {"add_to_cart", "remove_from_cart"} /\ OrderToolStep(c)
BindMerchant == \E c \in OrderCalls : c.name = "discover_merchant" /\ OrderToolStep(c)
OpenSession  == \E c \in OrderCalls : c.name = "initiate_checkout" /\ OrderToolStep(c)
SendShipping == \E c \in OrderCalls : c.name = "submit_shipping" /\ OrderToolStep(c)
Pay          == \E c \in OrderCalls : c.name = "submit_payment" /\ OrderToolStep(c)

NextOrders == EditCart \/ BindMerchant \/ OpenSession \/ SendShipping \/ Pay
SpecOrders == InitTools /\ [][NextOrders]_vars

\* C40: every order of the ledger has at least one item, and the items of an
\* order are the cart contents for which its checkout session was initiated,
\* whatever add_to_cart and remove_from_cart calls came between
\* initiate_checkout and submit_payment.
C40_OrderItemsAreCheckoutCart ==
    /\ [](\A id \in DOMAIN orders : Len(orders[id].items) >= 1)
    /\ [][ \A id \in (DOMAIN orders') \ (DOMAIN orders) :
              orders'[id].items = checkoutCart ]_vars

====
